---------------------------- MODULE Spec2Model ----------------------------
(***************************************************************************)
(* A model of duct-tape's event-dispatch and change-detection core:        *)
(*   - ArrHistoryPoller::poll        (crates/core/src/notifications.rs)    *)
(*   - NotificationStarter::start and NotificationManager::run             *)
(*   - Bot::interaction_create       (crates/core/src/bot.rs)              *)
(*   - RequestPlugin and its pending map (plugins/request/src/lib.rs)      *)
(* Each part has its own specification; the variables of the other parts   *)
(* stay at their initial values under it.                                  *)
(***************************************************************************)
EXTENDS Integers, Sequences, FiniteSets, TLC

VARIABLES
    \* --- ArrHistoryPoller (one instance) ---
    arrPoller,      \* [service_name, seen_ids, first_poll]: the poller's fields
    prevPoller,     \* the poller's fields when the last poll() call began
    lastResult,     \* the fetch result the last poll() call worked on
    lastEvents,     \* the Vec<NotificationEvent> the last poll() call returned
    calls,          \* poll() calls so far: "none", "one" or "many"
    overPage,       \* TRUE once a fetched page held more than SeenCap records
    notifyCount,    \* per record id: events emitted for it so far
    sincePrune,     \* per record id: events emitted for it since it last left seen_ids
    failedBefore    \* TRUE when the fetch of the call before the last one failed

VARIABLES
    \* --- UnraidPoller (one instance) ---
    unraidPoller,   \* [temp_threshold, last_array_state, last_container_states,
                    \*  first_poll]: the poller's fields
    lastData,       \* the query result the last poll() call worked on
    lastAlerts,     \* the Vec<NotificationEvent> the last poll() call returned
    unraidCalls,    \* poll() calls so far: "none", "one" or "many"
    alertedBefore,  \* the titles of the alerts that the call before the last returned
    lostTrack       \* [forgotten, reappeared]: the containers the last call found
                    \* missing while stored as RUNNING, and those of the call
                    \* before that the last call found listed again, not RUNNING

VARIABLES
    \* --- Bot (the command router) ---
    owner_id,       \* Bot.owner_id
    interaction,    \* the Interaction of the interaction_create call in progress
    routerPc,       \* where that call stands: "idle", "received", "walk", "done"
    pluginIdx,      \* the position of `for plugin in &self.plugins`
    called,         \* the handle_command calls made by this dispatch, in order
    responses       \* the responses sent for this interaction, in order

VARIABLES
    \* --- NotificationStarter / NotificationManager (the engine) ---
    starter,        \* the NotificationStarter's fields
    feed,           \* per service: the answers its API gives to successive fetches
    feedPos,        \* per service: which answer of `feed` the next fetch gets
    senderAlive,    \* TRUE while `_shutdown_tx`, the watch channel's Sender, exists
    shutdownValue,  \* the value held by the watch channel (watch::channel(false))
    enginePc,       \* "absent", "starting", "polling", "sending", "waiting",
                    \* "stopped", "aborted"
    channels,       \* the ChannelMap, once resolved
    pollers,        \* NotificationManager.pollers, in registration order
    pollIdx,        \* the position of `for poller in &mut self.pollers`
    outbox,         \* the events of the current poller still to be sent
    sent,           \* every send_message call so far: [channel, event, ok]
    tickNo,         \* the number of the current tick
    polled,         \* every poll() call so far: [tick, service, events]
    guild,          \* the channels of the Discord guild: [id, kind, name, parent]
    resolved        \* the result of every resolve_channels call so far

VARIABLES
    \* --- RequestPlugin (the pending map and the handler calls in flight) ---
    plugin,         \* [sonarr, radarr]: which of the Option<ArrClient> are Some
    pending,        \* the HashMap behind RequestPlugin.pending: id -> PendingRequest
    now,            \* the monotonic clock read by Instant::now() and elapsed()
    tasks,          \* per handler call: which handler, its arguments, where it stands
    lockReaders,    \* the calls holding a read guard of `pending`
    lockQueue,      \* the calls waiting for a guard of `pending`, first come first
    shown,          \* the ids whose select menu reached the user
    added,          \* every POST to an add endpoint that succeeded, in order
    history         \* per id: when it was inserted, whether handle_add removed it,
                    \* and whether cleanup_expired swept it away

VARIABLES
    \* --- ClaudePlugin (the conversations map, and chunk_message) ---
    conversations,  \* the HashMap behind ClaudePlugin.conversations: channel -> roles
    asks,           \* per `ask` call: its channel and where it stands
    lastOp,         \* per channel: the last conversation command processed
    commands,       \* how many commands the plugin has been given
    chunkInput,     \* the arguments of the last chunk_message call
    chunkOutput     \* what that call returned

VARIABLES
    \* --- QbitClient ---
    logged_in,      \* QbitClient.logged_in
    requests        \* per get/post_form call: where it stands and what it did

historyVars == <<arrPoller, prevPoller, lastResult, lastEvents, calls, overPage,
                 notifyCount, sincePrune, failedBefore>>

snapshotVars == <<unraidPoller, lastData, lastAlerts, unraidCalls, alertedBefore,
                  lostTrack>>

routerVars == <<owner_id, interaction, routerPc, pluginIdx, called, responses>>

engineVars == <<starter, feed, feedPos, senderAlive, shutdownValue, enginePc, channels,
                pollers, pollIdx, outbox, sent, tickNo, polled, guild, resolved>>

cacheVars == <<plugin, pending, now, tasks, lockReaders, lockQueue, shown, added,
               history>>

claudeVars == <<conversations, asks, lastOp, commands, chunkInput, chunkOutput>>

qbitVars == <<logged_in, requests>>

vars == <<historyVars, routerVars, engineVars, cacheVars, snapshotVars, claudeVars,
          qbitVars>>

\* The frame of a step of one part: the other parts do not move.
RouterOnly ==
    UNCHANGED <<historyVars, engineVars, cacheVars, snapshotVars, claudeVars, qbitVars>>

HistoryOnly ==
    UNCHANGED <<routerVars, engineVars, cacheVars, snapshotVars, claudeVars, qbitVars>>

EngineOnly ==
    UNCHANGED <<historyVars, routerVars, cacheVars, snapshotVars, claudeVars, qbitVars>>

CacheOnly ==
    UNCHANGED <<historyVars, routerVars, engineVars, snapshotVars, claudeVars, qbitVars>>

SnapshotOnly ==
    UNCHANGED <<historyVars, routerVars, engineVars, cacheVars, claudeVars, qbitVars>>

ClaudeOnly ==
    UNCHANGED <<historyVars, routerVars, engineVars, cacheVars, snapshotVars, qbitVars>>

QbitOnly ==
    UNCHANGED <<historyVars, routerVars, engineVars, cacheVars, snapshotVars, claudeVars>>

(***************************************************************************)
(* Bounds of the model                                                     *)
(***************************************************************************)
\* Discord user ids are 1..MaxUsers.
MaxUsers == 3
\* Bot.plugins holds NumPlugins plugins, in registration order.
NumPlugins == 3
\* The engine is followed for MaxTicks ticks.
MaxTicks == 3
\* Record ids of the history log are 1..MaxId.
MaxId == 3
\* A poll run stops once some record id has caused this many events.
MaxNotify == 2
\* The Unraid server has NumDisks disks and knows NumContainers containers.
NumDisks == 1
NumContainers == 1
\* The request plugin is followed through NumTasks handler calls.
MaxExisting == 3

MaxResolves == 2

NumTasks == 3
\* The clock is followed up to MaxTime seconds.
MaxTime == 900
\* The Claude plugin serves NumChannels channels through NumAsks `ask` calls
\* and is given at most MaxCommands commands.
NumChannels == 2

NumAsks == 2

MaxCommands == 4
\* chunk_message is given texts of at most MaxLen bytes.
MaxLen == 5
\* QbitClient is followed through NumRequests get/post_form calls.
NumRequests == 2

(***************************************************************************)
(* Program constants                                                       *)
(***************************************************************************)
\* `if self.seen_ids.len() > 1000`: the cardinality above which seen_ids is
\* pruned.  The model scales 1000 down to 2 so that the set can exceed it.
SeenCap == 2

\* The fetched pages are all pages of at most SeenCap records, and some of
\* SeenCap + 1 records (pages larger than the cap).
MaxPageLen == SeenCap

RecordIds == 1..MaxId

\* HistoryRecord.event_type: the two recognised strings and one other.
EventTypes == {"grabbed", "downloadFolderImported", "episodeFileDeleted"}

\* HistoryRecord {id, event_type}; source_title only feeds the message text
\* and is represented by the record id in the event body.
HistoryRecords == [id : RecordIds, event_type : EventTypes]

SeqsUpTo(S, n) == UNION {[1..k -> S] : k \in 0..n}

\* Pages of SeenCap + 1 records with the ids 1..SeenCap+1, all of one type.
BigPages == {[i \in 1..(SeenCap + 1) |-> [id |-> i, event_type |-> t]] : t \in EventTypes}

\* HistoryResponse.records as the service may answer.
Pages == SeqsUpTo(HistoryRecords, MaxPageLen) \cup BigPages

\* Result<HistoryResponse, _> of get_with_params("history", ...).
FetchResults == {[ok |-> FALSE, records |-> <<>>]}
                    \cup {[ok |-> TRUE, records |-> p] : p \in Pages}

IdsOf(records) == {records[i].id : i \in 1..Len(records)}

(***************************************************************************)
(* ArrHistoryPoller                                                        *)
(***************************************************************************)
\* ArrHistoryPoller::new
NewArrHistoryPoller(service_name) ==
    [service_name |-> service_name, seen_ids |-> {}, first_poll |-> TRUE]

\* Classify with the two recognised arms exchanged.
Classify_Swapped(event_type) ==
    CASE event_type = "grabbed" -> "MediaImport"
      [] event_type = "downloadFolderImported" -> "MediaGrab"
      [] OTHER -> "None"

\* The arms of `match record.event_type.as_str()`.
Classify(event_type) ==
    CASE event_type = "grabbed" -> "MediaGrab"
      [] event_type = "downloadFolderImported" -> "MediaImport"
      [] OTHER -> "None"

\* The NotificationEvent pushed for a record of a recognised type.
EventFor(service_name, record) ==
    IF Classify(record.event_type) = "MediaGrab"
    THEN [category |-> "MediaGrab", title |-> <<service_name, "Grab">>,
          body |-> <<"Grabbed", record.id>>]
    ELSE [category |-> "MediaImport", title |-> <<service_name, "Import">>,
          body |-> <<"Imported", record.id>>]

\* ProcessRecord without the first_poll branch: the baseline page is notified.
ProcessRecord_NoBaseline(st, record) ==
    IF record.id \in st.seen_ids
    THEN st
    ELSE IF Classify(record.event_type) = "None"
    THEN [st EXCEPT !.seen_ids = @ \cup {record.id}]
    ELSE [st EXCEPT !.seen_ids = @ \cup {record.id},
                    !.events = Append(@, EventFor(st.service_name, record))]

\* ProcessRecord without the `seen_ids.contains` check: seen records are notified again.
ProcessRecord_NoSeenCheck(st, record) ==
    IF st.first_poll
    THEN [st EXCEPT !.seen_ids = @ \cup {record.id}]
    ELSE IF Classify(record.event_type) = "None"
    THEN [st EXCEPT !.seen_ids = @ \cup {record.id}]
    ELSE [st EXCEPT !.seen_ids = @ \cup {record.id},
                    !.events = Append(@, EventFor(st.service_name, record))]

\* One iteration of `for record in &history.records`.
\* st = [service_name, seen_ids, first_poll, events].
ProcessRecord(st, record) ==
    IF st.first_poll
    THEN [st EXCEPT !.seen_ids = @ \cup {record.id}]
    ELSE IF record.id \in st.seen_ids
    THEN st
    ELSE IF Classify(record.event_type) = "None"
    THEN [st EXCEPT !.seen_ids = @ \cup {record.id}]
    ELSE [st EXCEPT !.seen_ids = @ \cup {record.id},
                    !.events = Append(@, EventFor(st.service_name, record))]

\* The whole `for record in &history.records` loop, first record first.
RECURSIVE ProcessRecords(_, _)
ProcessRecords(st, records) ==
    IF records = <<>>
    THEN st
    ELSE ProcessRecords(ProcessRecord(st, Head(records)), Tail(records))

\* PruneSeen that drops the ids of the current page and keeps the others.
PruneSeen_Inverted(seen, records) ==
    IF Cardinality(seen) > SeenCap
    THEN {id \in seen : id \notin IdsOf(records)}
    ELSE seen

\* PruneSeen with the threshold off by one.
PruneSeen_LateThreshold(seen, records) ==
    IF Cardinality(seen) > SeenCap + 1
    THEN {id \in seen : id \in IdsOf(records)}
    ELSE seen

\* "Keep seen_ids from growing unbounded".
PruneSeen(seen, records) ==
    IF Cardinality(seen) > SeenCap
    THEN {id \in seen : id \in IdsOf(records)}
    ELSE seen

\* ArrHistoryPoller::poll forgetting what it remembered when the fetch fails.
HistoryPoll_FailureResets(p, result) ==
    IF ~result.ok
    THEN [poller |-> NewArrHistoryPoller(p.service_name), events |-> <<>>]
    ELSE LET st == ProcessRecords([service_name |-> p.service_name,
                                   seen_ids |-> p.seen_ids,
                                   first_poll |-> p.first_poll,
                                   events |-> <<>>], result.records)
         IN  [poller |-> [p EXCEPT !.seen_ids = PruneSeen(st.seen_ids, result.records),
                                   !.first_poll = FALSE],
              events |-> st.events]

\* ArrHistoryPoller::poll on the fetch result `result`:
\* the poller's new fields and the returned events.
HistoryPoll(p, result) ==
    IF ~result.ok
    THEN [poller |-> p, events |-> <<>>]
    ELSE LET st == ProcessRecords([service_name |-> p.service_name,
                                   seen_ids |-> p.seen_ids,
                                   first_poll |-> p.first_poll,
                                   events |-> <<>>], result.records)
         IN  [poller |-> [p EXCEPT !.seen_ids = PruneSeen(st.seen_ids, result.records),
                                   !.first_poll = FALSE],
              events |-> st.events]

\* The record ids the events of a poll are about.
EventIds(events) == {events[i].body[2] : i \in 1..Len(events)}

\* How many events of `events` are about record `id`.
RECURSIVE CountFor(_, _)
CountFor(events, id) ==
    IF events = <<>>
    THEN 0
    ELSE (IF Head(events).body[2] = id THEN 1 ELSE 0) + CountFor(Tail(events), id)

HistoryIdle ==
    /\ arrPoller = NewArrHistoryPoller("Sonarr")
    /\ prevPoller = NewArrHistoryPoller("Sonarr")
    /\ lastResult = [ok |-> FALSE, records |-> <<>>]
    /\ lastEvents = <<>>
    /\ calls = "none"
    /\ overPage = FALSE
    /\ notifyCount = [id \in RecordIds |-> 0]
    /\ sincePrune = [id \in RecordIds |-> 0]
    /\ failedBefore = FALSE

(***************************************************************************)
(* UnraidPoller                                                            *)
(***************************************************************************)
\* Option<T>: None is the empty sequence, Some(v) the sequence of v alone.
None == <<>>

Some(v) == <<v>>

\* UnraidArrayState.state
ArrayStates == {"STARTED", "STOPPED"}

\* UnraidContainer.state
ContainerStates == {"RUNNING", "EXITED"}

\* UnraidContainer::display_name: the first name (its leading '/' is already
\* stripped in the model's names), or "unknown" when there is none.
DisplayName(container) ==
    IF container.names = <<>> THEN "unknown" ELSE Head(container.names)

\* HashMap::insert on a map held as a function.
MapInsert(m, k, v) ==
    [x \in (DOMAIN m) \cup {k} |-> IF x = k THEN v ELSE m[x]]

\* default_temp_threshold
TempThreshold == 50

\* UnraidPoller::new
NewUnraidPoller(threshold) ==
    [temp_threshold |-> threshold, last_array_state |-> None,
     last_container_states |-> <<>>, first_poll |-> TRUE]

\* `for container in &data.docker.containers { map.insert(name, state) }`
RECURSIVE InsertContainers(_, _)
InsertContainers(m, containers) ==
    IF containers = <<>>
    THEN m
    ELSE InsertContainers(MapInsert(m, DisplayName(Head(containers)), Head(containers).state),
                          Tail(containers))

\* The array check reporting the state on every poll, changed or not.
ArrayEvents_Always(last_array_state, state) ==
    IF last_array_state # None
    THEN <<[category |-> "ServerAlert", title |-> "Array State Changed",
            body |-> <<last_array_state[1], state>>]>>
    ELSE <<>>

\* "Check array state transitions"
ArrayEvents(last_array_state, state) ==
    IF last_array_state # None /\ last_array_state[1] # state
    THEN <<[category |-> "ServerAlert", title |-> "Array State Changed",
            body |-> <<last_array_state[1], state>>]>>
    ELSE <<>>

\* The temperature check with `temp > self.temp_threshold`.
RECURSIVE DiskEvents_StrictlyAbove(_, _)
DiskEvents_StrictlyAbove(disks, threshold) ==
    IF disks = <<>>
    THEN <<>>
    ELSE (IF Head(disks).temperature # None /\ Head(disks).temperature[1] > threshold
          THEN <<[category |-> "ServerAlert", title |-> "Disk Temperature Warning",
                  body |-> <<Head(disks).name, Head(disks).temperature[1]>>]>>
          ELSE <<>>) \o DiskEvents_StrictlyAbove(Tail(disks), threshold)

\* "Check disk temperatures"
RECURSIVE DiskEvents(_, _)
DiskEvents(disks, threshold) ==
    IF disks = <<>>
    THEN <<>>
    ELSE (IF Head(disks).temperature # None /\ Head(disks).temperature[1] >= threshold
          THEN <<[category |-> "ServerAlert", title |-> "Disk Temperature Warning",
                  body |-> <<Head(disks).name, Head(disks).temperature[1]>>]>>
          ELSE <<>>) \o DiskEvents(Tail(disks), threshold)

\* The container check without the look at the last state: every container
\* that is not running is reported.
RECURSIVE ContainerEvents_LevelTriggered(_, _)
ContainerEvents_LevelTriggered(last, containers) ==
    IF containers = <<>>
    THEN <<>>
    ELSE LET name == DisplayName(Head(containers))
             state == Head(containers).state
         IN  (IF name \in DOMAIN last /\ state # "RUNNING"
              THEN <<[category |-> "ServerAlert", title |-> "Container Down",
                      body |-> <<name, last[name], state>>]>>
              ELSE <<>>) \o ContainerEvents_LevelTriggered(last, Tail(containers))

\* "Check container state transitions (detect crashes: RUNNING -> EXITED)"
RECURSIVE ContainerEvents(_, _)
ContainerEvents(last, containers) ==
    IF containers = <<>>
    THEN <<>>
    ELSE LET name == DisplayName(Head(containers))
             state == Head(containers).state
         IN  (IF name \in DOMAIN last /\ last[name] = "RUNNING" /\ state # "RUNNING"
              THEN <<[category |-> "ServerAlert", title |-> "Container Down",
                      body |-> <<name, last[name], state>>]>>
              ELSE <<>>) \o ContainerEvents(last, Tail(containers))

\* UnraidPoller::poll adding the listed containers to the stored map
\* instead of putting the listed ones in its place.
UnraidPoll_KeepsMissing(p, result) ==
    IF ~result.ok
    THEN [poller |-> p, events |-> <<>>]
    ELSE IF p.first_poll
    THEN [poller |-> [p EXCEPT !.last_array_state = Some(result.data.array),
                               !.last_container_states =
                                   InsertContainers(@, result.data.containers),
                               !.first_poll = FALSE],
          events |-> <<>>]
    ELSE [poller |-> [p EXCEPT !.last_array_state = Some(result.data.array),
                               !.last_container_states =
                                   InsertContainers(@, result.data.containers)],
          events |-> ArrayEvents(p.last_array_state, result.data.array)
                       \o DiskEvents(result.data.disks, p.temp_threshold)
                       \o ContainerEvents(p.last_container_states, result.data.containers)]

\* UnraidPoller::poll without the first_poll branch: the first snapshot is
\* compared and reported like every other.
UnraidPoll_NoBaseline(p, result) ==
    IF ~result.ok
    THEN [poller |-> p, events |-> <<>>]
    ELSE [poller |-> [p EXCEPT !.last_array_state = Some(result.data.array),
                               !.last_container_states =
                                   InsertContainers(<<>>, result.data.containers),
                               !.first_poll = FALSE],
          events |-> ArrayEvents(p.last_array_state, result.data.array)
                       \o DiskEvents(result.data.disks, p.temp_threshold)
                       \o ContainerEvents(p.last_container_states, result.data.containers)]

\* UnraidPoller::poll on the query result `result`:
\* the poller's new fields and the returned events.
UnraidPoll(p, result) ==
    IF ~result.ok
    THEN [poller |-> p, events |-> <<>>]
    ELSE IF p.first_poll
    THEN [poller |-> [p EXCEPT !.last_array_state = Some(result.data.array),
                               !.last_container_states =
                                   InsertContainers(@, result.data.containers),
                               !.first_poll = FALSE],
          events |-> <<>>]
    ELSE [poller |-> [p EXCEPT !.last_array_state = Some(result.data.array),
                               !.last_container_states =
                                   InsertContainers(<<>>, result.data.containers)],
          events |-> ArrayEvents(p.last_array_state, result.data.array)
                       \o DiskEvents(result.data.disks, p.temp_threshold)
                       \o ContainerEvents(p.last_container_states, result.data.containers)]

(***************************************************************************)
(* Each part at rest                                                       *)
(***************************************************************************)
NoInteraction == [kind |-> "None", user |-> 0]

\* UnraidPoller::new with the default threshold; no poll() call was made.
SnapshotIdle ==
    /\ unraidPoller = NewUnraidPoller(TempThreshold)
    /\ lastData = [ok |-> FALSE]
    /\ lastAlerts = <<>>
    /\ unraidCalls = "none"
    /\ alertedBefore = {}
    /\ lostTrack = [forgotten |-> {}, reappeared |-> {}]

RouterIdle ==
    /\ interaction = NoInteraction
    /\ routerPc = "idle"
    /\ pluginIdx = 0
    /\ called = <<>>
    /\ responses = <<>>

NoChannels == [grabs |-> None, imports |-> None, alerts |-> None]

\* No NotificationStarter was built (no [notifications] configuration).
NoStarter ==
    [guild_id |-> None, poll_interval_secs |-> 0, temp_threshold |-> 0,
     sonarr |-> FALSE, radarr |-> FALSE, unraid |-> FALSE,
     grabs_channel_id |-> None, imports_channel_id |-> None,
     alerts_channel_id |-> None, fallback_channel_id |-> None]

EngineRest ==
    /\ feedPos = [Sonarr |-> 1, Radarr |-> 1, Unraid |-> 1]
    /\ senderAlive = TRUE
    /\ shutdownValue = FALSE
    /\ channels = NoChannels
    /\ pollers = <<>>
    /\ pollIdx = 0
    /\ outbox = <<>>
    /\ sent = <<>>
    /\ tickNo = 0
    /\ polled = <<>>
    /\ resolved = <<>>

EngineIdle ==
    /\ starter = NoStarter
    /\ feed = [Sonarr |-> <<>>, Radarr |-> <<>>, Unraid |-> <<>>]
    /\ enginePc = "absent"
    /\ guild = {}
    /\ EngineRest

Tasks == 1..NumTasks

\* A handler call that has not been made.
NoTask ==
    [kind |-> "none", pc |-> "idle", id |-> 0, index |-> 0, service |-> "",
     items |-> <<>>, found |-> "unknown", lookupAt |-> 0, result |-> "none"]

\* RequestPlugin::new: the map is empty and nothing is in flight.
CacheRest ==
    /\ pending = <<>>
    /\ now = 0
    /\ tasks = [t \in Tasks |-> NoTask]
    /\ lockReaders = {}
    /\ lockQueue = <<>>
    /\ shown = {}
    /\ added = <<>>
    /\ history = [t \in Tasks |-> [inserted |-> <<>>, removed |-> FALSE, swept |-> FALSE]]

CacheIdle == plugin = [sonarr |-> FALSE, radarr |-> FALSE] /\ CacheRest

Channels == 1 .. NumChannels

\* An `ask` call that has not been made yet.
NewAsk == [pc |-> "idle", channel |-> 0, messages |-> <<>>, result |-> "none"]

\* ClaudePlugin::new: no conversation; no call of chunk_message was made.
ClaudeIdle ==
    /\ conversations = <<>>
    /\ asks = [a \in 1 .. NumAsks |-> NewAsk]
    /\ lastOp = [c \in Channels |-> "none"]
    /\ commands = 0
    /\ chunkInput = [text |-> <<>>, max_len |-> 1]
    /\ chunkOutput = None

\* A get/post_form call that has not been made yet.
NewRequest ==
    [pc |-> "idle", first_login |-> FALSE, forbidden |-> FALSE, relogins |-> 0,
     retries |-> 0, result |-> "none"]

\* QbitClient::new
QbitIdle ==
    /\ logged_in = FALSE
    /\ requests = [r \in 1 .. NumRequests |-> NewRequest]

PluginsIdle == ClaudeIdle /\ QbitIdle

(***************************************************************************)
(* NotificationStarter::start and NotificationManager::run                 *)
(***************************************************************************)
Ok(v) == [ok |-> TRUE, records |-> v]

Failed == [ok |-> FALSE, records |-> <<>>]

PageOne == <<[id |-> 1, event_type |-> "grabbed"]>>

PageTwo == <<[id |-> 1, event_type |-> "grabbed"],
             [id |-> 2, event_type |-> "downloadFolderImported"]>>

PageThree == <<[id |-> 3, event_type |-> "grabbed"]>>

\* What the history API of Sonarr answers to successive fetches (the last
\* answer is repeated from then on).
SonarrScripts ==
    {<<Ok(PageOne), Ok(PageTwo)>>, <<Ok(<<>>), Ok(PageTwo)>>,
     <<Failed, Ok(PageOne)>>, <<Ok(PageTwo), Failed>>}

RadarrScripts == {<<Ok(<<>>), Ok(PageThree)>>, <<Failed>>}

UnraidOk(d) == [ok |-> TRUE, data |-> d]

UnraidFailed == [ok |-> FALSE]

SnapshotOne ==
    [array |-> "STARTED",
     disks |-> <<[name |-> "disk1", temperature |-> Some(40)]>>,
     containers |-> <<[names |-> <<"plex">>, state |-> "RUNNING"]>>]

SnapshotTwo ==
    [array |-> "STOPPED",
     disks |-> <<[name |-> "disk1", temperature |-> Some(55)]>>,
     containers |-> <<[names |-> <<"plex">>, state |-> "EXITED"]>>]

UnraidScripts ==
    {<<UnraidOk(SnapshotOne), UnraidOk(SnapshotTwo)>>, <<UnraidFailed, UnraidOk(SnapshotTwo)>>}

\* The NotificationStarter values main.rs may build from the configuration.
Starters ==
    [guild_id : {None, Some(1)}, poll_interval_secs : {0, 60}, temp_threshold : {50},
     sonarr : BOOLEAN, radarr : BOOLEAN, unraid : BOOLEAN,
     grabs_channel_id : {None, Some(21)}, imports_channel_id : {None},
     alerts_channel_id : {None}, fallback_channel_id : {None, Some(9)}]

BuildPollers_UnraidFirst(st) ==
    (IF st.unraid
     THEN <<[service |-> "Unraid", kind |-> "UnraidPoller",
             state |-> NewUnraidPoller(st.temp_threshold)]>>
     ELSE <<>>)
    \o (IF st.radarr
        THEN <<[service |-> "Radarr", kind |-> "ArrHistoryPoller",
                state |-> NewArrHistoryPoller("Radarr")]>>
        ELSE <<>>)
    \o (IF st.sonarr
        THEN <<[service |-> "Sonarr", kind |-> "ArrHistoryPoller",
                state |-> NewArrHistoryPoller("Sonarr")]>>
        ELSE <<>>)

\* NotificationManager::new: one poller per configured service, Sonarr first,
\* then Radarr, then Unraid.
BuildPollers(st) ==
    (IF st.sonarr
     THEN <<[service |-> "Sonarr", kind |-> "ArrHistoryPoller",
             state |-> NewArrHistoryPoller("Sonarr")]>>
     ELSE <<>>)
    \o (IF st.radarr
        THEN <<[service |-> "Radarr", kind |-> "ArrHistoryPoller",
                state |-> NewArrHistoryPoller("Radarr")]>>
        ELSE <<>>)
    \o (IF st.unraid
        THEN <<[service |-> "Unraid", kind |-> "UnraidPoller",
                state |-> NewUnraidPoller(st.temp_threshold)]>>
        ELSE <<>>)

FallbackChannels_OverridesWin(st) ==
    [grabs |-> IF st.grabs_channel_id # None THEN st.grabs_channel_id
               ELSE st.fallback_channel_id,
     imports |-> IF st.imports_channel_id # None THEN st.imports_channel_id
                 ELSE st.fallback_channel_id,
     alerts |-> IF st.alerts_channel_id # None THEN st.alerts_channel_id
                ELSE st.fallback_channel_id]

\* "Legacy mode: all events go to one channel"
FallbackChannels(st) ==
    [grabs |-> st.fallback_channel_id, imports |-> st.fallback_channel_id,
     alerts |-> st.fallback_channel_id]

\* The calls to Discord that resolve_channels can make, by what they are
\* for; ResolveFailures says which of them fails ("none": no call fails).
ResolveFailures ==
    {"none", "fetch", "Notifications", "media-grabs", "media-imports", "server-alerts"}

\* str::to_ascii_lowercase, on the names of the model.
LowerAscii(name) ==
    CASE name = "Notifications" -> "notifications"
      [] name = "NOTIFICATIONS" -> "notifications"
      [] OTHER -> name

\* `a.eq_ignore_ascii_case(b)`
EqIgnoreAsciiCase(a, b) == LowerAscii(a) = LowerAscii(b)

\* The id Discord gives to a channel it creates: one no channel of g has.
FreshId(g) ==
    LET ids == {ch.id : ch \in g} \cup {30}
    IN  (CHOOSE m \in ids : \A i \in ids : i <= m) + 1

\* gid.create_channel(..) when it succeeds: the channel Discord adds.
CreateChannel(g, kind, name, parent) ==
    [id |-> FreshId(g), kind |-> kind, name |-> name, parent |-> parent]

\* The result of one step of resolve_channels: Ok(id) or Err, with the
\* channels the guild then has.
Found(id, g) == [ok |-> TRUE, id |-> id, guild |-> g]

CallFailed(g) == [ok |-> FALSE, id |-> 0, guild |-> g]

\* "Find or create "Notifications" category": `existing.iter().find(..)`
\* walks a HashMap, so any category of that name can be the one found.
FindOrCreateCategory(g, existing, fail) ==
    LET found == {ch \in existing : /\ ch.kind = "Category"
                                    /\ EqIgnoreAsciiCase(ch.name, "notifications")}
    IN  IF found # {}
        THEN {Found(ch.id, g) : ch \in found}
        ELSE IF fail = "Notifications"
             THEN {CallFailed(g)}
             ELSE {Found(FreshId(g),
                         g \cup {CreateChannel(g, "Category", "Notifications", None)})}

\* find_or_create: the override when there is one, else a channel of that
\* name under the category (any of them, `find` walks a HashMap), else the
\* channel it creates there.
FindOrCreate(g, existing, category_id, name, override_id, fail) ==
    IF override_id # None
    THEN {Found(override_id[1], g)}
    ELSE LET found == {ch \in existing : /\ ch.name = name
                                         /\ ch.parent = Some(category_id)}
         IN  IF found # {}
             THEN {Found(ch.id, g) : ch \in found}
             ELSE IF fail = name
                  THEN {CallFailed(g)}
                  ELSE {Found(FreshId(g),
                              g \cup {CreateChannel(g, "Text", name,
                                                    Some(category_id))})}

\* What resolve_channels returns: Err, or Ok(ChannelMap).
ResolveErr(g) == [ok |-> FALSE, channels |-> NoChannels, guild |-> g]

ResolveOk(grabs, imports, alerts, g) ==
    [ok |-> TRUE,
     channels |-> [grabs |-> Some(grabs), imports |-> Some(imports),
                   alerts |-> Some(alerts)],
     guild |-> g]

\* resolve_channels on the guild g: every result it can give, when the call
\* named by `fail` fails if it is made.  Each `?` returns at the first Err.
ResolveChannels(g, st, fail) ==
    IF fail = "fetch"
    THEN {ResolveErr(g)}
    ELSE UNION {
           IF ~cat.ok THEN {ResolveErr(cat.guild)} ELSE
           UNION {
             IF ~gr.ok THEN {ResolveErr(gr.guild)} ELSE
             UNION {
               IF ~im.ok THEN {ResolveErr(im.guild)} ELSE
               {IF ~al.ok THEN ResolveErr(al.guild)
                ELSE ResolveOk(gr.id, im.id, al.id, al.guild) :
                  al \in FindOrCreate(im.guild, g, cat.id, "server-alerts",
                                      st.alerts_channel_id, fail)} :
               im \in FindOrCreate(gr.guild, g, cat.id, "media-imports",
                                   st.imports_channel_id, fail)} :
             gr \in FindOrCreate(cat.guild, g, cat.id, "media-grabs",
                                 st.grabs_channel_id, fail)} :
           cat \in FindOrCreateCategory(g, g, fail)}

\* The outcome recorded for a resolve_channels call.
ResultOf(out) == [ok |-> out.ok, channels |-> out.channels]

\* `match event.category` in run().
ChannelFor(map, category) ==
    CASE category = "MediaGrab" -> map.grabs
      [] category = "MediaImport" -> map.imports
      [] category = "ServerAlert" -> map.alerts

\* poller.poll() through the Poller trait.
PollOf(poller, result) ==
    IF poller.kind = "ArrHistoryPoller"
    THEN HistoryPoll(poller.state, result)
    ELSE UnraidPoll(poller.state, result)

\* `self.shutdown.changed()` is ready: the value changed, or the Sender is gone
\* (it then resolves to Err, which the `_` pattern of select! accepts).
ChangedReady == shutdownValue \/ ~senderAlive

\* `tokio::time::sleep(self.poll_interval)` can complete before changed() is
\* seen ready: always with a zero interval, else only while changed() is pending.
SleepCanWin == starter.poll_interval_secs = 0 \/ ~ChangedReady

\* A request the service never answers: the connection stays open and no
\* byte comes back.  reqwest's Client::new() and the Client::builder() of
\* UnraidPoller::new set no timeout, so `.send().await` stays pending.
Unanswered == [ok |-> FALSE, answered |-> FALSE]

\* `.send().await` returns: the service answered or the connection failed.
Answered(result) == "answered" \notin DOMAIN result

\* The guilds the engine is started on: one without channels, and one that
\* has the Notifications category with its three channels.
ProvisionedGuild ==
    {[id |-> 1, kind |-> "Category", name |-> "Notifications", parent |-> None],
     [id |-> 3, kind |-> "Text", name |-> "media-grabs", parent |-> Some(1)],
     [id |-> 5, kind |-> "Text", name |-> "media-imports", parent |-> Some(1)],
     [id |-> 6, kind |-> "Text", name |-> "server-alerts", parent |-> Some(1)]}

EngineGuilds == {{}, ProvisionedGuild}

\* start() has spawned the engine task and not yet returned.
InitEngine ==
    /\ starter \in Starters
    /\ feed \in [Sonarr : IF starter.sonarr THEN SonarrScripts ELSE {<<>>},
                 Radarr : IF starter.radarr THEN RadarrScripts ELSE {<<>>},
                 Unraid : IF starter.unraid THEN UnraidScripts ELSE {<<>>}]
    /\ enginePc = "starting"
    /\ guild \in IF starter.guild_id = None THEN {{}} ELSE EngineGuilds
    /\ EngineRest
    /\ HistoryIdle
    /\ owner_id = 1
    /\ RouterIdle
    /\ CacheIdle
    /\ SnapshotIdle
    /\ PluginsIdle

\* The engine started against services that may leave a request unanswered.
InitUnanswered ==
    /\ starter \in Starters
    /\ feed \in [Sonarr : IF starter.sonarr
                          THEN {<<Ok(PageOne), Unanswered>>, <<Unanswered>>}
                          ELSE {<<>>},
                 Radarr : IF starter.radarr
                          THEN {<<Ok(<<>>)>>, <<Unanswered>>}
                          ELSE {<<>>},
                 Unraid : IF starter.unraid
                          THEN {<<UnraidOk(SnapshotOne), UnraidOk(SnapshotTwo)>>,
                                <<Unanswered>>}
                          ELSE {<<>>}]
    /\ enginePc = "starting"
    /\ guild \in IF starter.guild_id = None THEN {{}} ELSE EngineGuilds
    /\ EngineRest
    /\ HistoryIdle
    /\ owner_id = 1
    /\ RouterIdle
    /\ CacheIdle
    /\ SnapshotIdle
    /\ PluginsIdle

\* start() returns: `_shutdown_tx` goes out of scope and the Sender is dropped.
DropSender ==
    /\ enginePc # "absent"
    /\ senderAlive
    /\ senderAlive' = FALSE
    /\ UNCHANGED <<starter, feed, feedPos, shutdownValue, enginePc, channels,
                   pollers, pollIdx, outbox, sent, tickNo>>
    /\ UNCHANGED <<polled, guild, resolved>>
    /\ EngineOnly

\* The spawned task, legacy mode; then NotificationManager::new and run().
UseFallback ==
    /\ enginePc = "starting"
    /\ starter.fallback_channel_id # None
    /\ channels' = FallbackChannels(starter)
    /\ pollers' = BuildPollers(starter)
    /\ enginePc' = "polling"
    /\ pollIdx' = 1
    /\ tickNo' = 1
    /\ UNCHANGED <<starter, feed, feedPos, senderAlive, shutdownValue, outbox, sent>>
    /\ UNCHANGED <<polled, guild, resolved>>
    /\ EngineOnly

ResolveGuild_RunsDegraded(fail) ==
    /\ enginePc = "starting"
    /\ starter.fallback_channel_id = None
    /\ starter.guild_id # None
    /\ \E out \in ResolveChannels(guild, starter, fail) :
          /\ guild' = out.guild
          /\ resolved' = Append(resolved, ResultOf(out))
          /\ channels' = out.channels
          /\ pollers' = BuildPollers(starter)
          /\ enginePc' = "polling"
          /\ pollIdx' = 1
          /\ tickNo' = 1
    /\ UNCHANGED <<starter, feed, feedPos, senderAlive, shutdownValue, outbox, sent>>
    /\ UNCHANGED polled
    /\ EngineOnly

\* The spawned task with a guild id: resolve_channels(..).await, which fails
\* (the task returns) or gives the ChannelMap.
ResolveGuild(fail) ==
    /\ enginePc = "starting"
    /\ starter.fallback_channel_id = None
    /\ starter.guild_id # None
    /\ \E out \in ResolveChannels(guild, starter, fail) :
          /\ guild' = out.guild
          /\ resolved' = Append(resolved, ResultOf(out))
          /\ IF out.ok
             THEN /\ channels' = out.channels
                  /\ pollers' = BuildPollers(starter)
                  /\ enginePc' = "polling"
                  /\ pollIdx' = 1
                  /\ tickNo' = 1
             ELSE /\ enginePc' = "aborted"
                  /\ UNCHANGED <<channels, pollers, pollIdx, tickNo>>
    /\ UNCHANGED <<starter, feed, feedPos, senderAlive, shutdownValue, outbox, sent>>
    /\ UNCHANGED polled
    /\ EngineOnly

\* "neither guild_id nor channel_id configured, cannot start"
AbortUnconfigured ==
    /\ enginePc = "starting"
    /\ starter.fallback_channel_id = None
    /\ starter.guild_id = None
    /\ enginePc' = "aborted"
    /\ UNCHANGED <<starter, feed, feedPos, senderAlive, shutdownValue, channels,
                   pollers, pollIdx, outbox, sent, tickNo>>
    /\ UNCHANGED <<polled, guild, resolved>>
    /\ EngineOnly

\* `let events = poller.poll().await` for the next poller of the tick.
PollNext ==
    /\ enginePc = "polling"
    /\ pollIdx \in 1..Len(pollers)
    /\ Answered(feed[pollers[pollIdx].service][feedPos[pollers[pollIdx].service]])
    /\ LET service == pollers[pollIdx].service
           out == PollOf(pollers[pollIdx], feed[service][feedPos[service]])
       IN  /\ pollers' = [pollers EXCEPT ![pollIdx].state = out.poller]
           /\ feedPos' = [feedPos EXCEPT ![service] =
                             IF @ < Len(feed[service]) THEN @ + 1 ELSE @]
           /\ outbox' = out.events
           /\ IF out.events = <<>>
              THEN pollIdx' = pollIdx + 1 /\ UNCHANGED enginePc
              ELSE enginePc' = "sending" /\ UNCHANGED pollIdx
           /\ polled' = Append(polled, [tick |-> tickNo, service |-> service,
                                         events |-> out.events])
    /\ UNCHANGED <<starter, feed, senderAlive, shutdownValue, channels, sent, tickNo>>
    /\ UNCHANGED <<guild, resolved>>
    /\ EngineOnly

\* One iteration of `for event in events`: channel.send_message(..).await,
\* whose failure is only logged.
SendEvent(ok) ==
    /\ enginePc = "sending"
    /\ sent' = Append(sent, [channel |-> ChannelFor(channels, Head(outbox).category),
                             event |-> Head(outbox), ok |-> ok])
    /\ outbox' = Tail(outbox)
    /\ IF Tail(outbox) = <<>>
       THEN pollIdx' = pollIdx + 1 /\ enginePc' = "polling"
       ELSE UNCHANGED <<pollIdx, enginePc>>
    /\ UNCHANGED <<starter, feed, feedPos, senderAlive, shutdownValue, channels,
                   pollers, tickNo>>
    /\ UNCHANGED <<polled, guild, resolved>>
    /\ EngineOnly

\* The pollers are through: run() reaches tokio::select!.
EndTick ==
    /\ enginePc = "polling"
    /\ pollIdx = Len(pollers) + 1
    /\ enginePc' = "waiting"
    /\ UNCHANGED <<starter, feed, feedPos, senderAlive, shutdownValue, channels,
                   pollers, pollIdx, outbox, sent, tickNo>>
    /\ UNCHANGED <<polled, guild, resolved>>
    /\ EngineOnly

\* select!: the sleep branch; the loop starts the next tick.
SleepElapsed ==
    /\ enginePc = "waiting"
    /\ SleepCanWin
    /\ tickNo < MaxTicks
    /\ enginePc' = "polling"
    /\ pollIdx' = 1
    /\ tickNo' = tickNo + 1
    /\ UNCHANGED <<starter, feed, feedPos, senderAlive, shutdownValue, channels,
                   pollers, outbox, sent>>
    /\ UNCHANGED <<polled, guild, resolved>>
    /\ EngineOnly

\* select!: the `_ = self.shutdown.changed()` branch; run() returns.
ShutdownObserved ==
    /\ enginePc = "waiting"
    /\ ChangedReady
    /\ enginePc' = "stopped"
    /\ UNCHANGED <<starter, feed, feedPos, senderAlive, shutdownValue, channels,
                   pollers, pollIdx, outbox, sent, tickNo>>
    /\ UNCHANGED <<polled, guild, resolved>>
    /\ EngineOnly

\* The steps of the spawned task.
EngineTask ==
    \/ UseFallback
    \/ \E fail \in ResolveFailures : ResolveGuild(fail)
    \/ AbortUnconfigured
    \/ PollNext
    \/ \E ok \in BOOLEAN : SendEvent(ok)
    \/ EndTick
    \/ SleepElapsed
    \/ ShutdownObserved

NextEngine ==
    \/ DropSender
    \/ UseFallback
    \/ \E fail \in ResolveFailures : ResolveGuild(fail)
    \/ AbortUnconfigured
    \/ PollNext
    \/ \E ok \in BOOLEAN : SendEvent(ok)
    \/ EndTick
    \/ SleepElapsed
    \/ ShutdownObserved

\* start() returns, and the runtime keeps running the spawned task.
SpecEngine ==
    InitEngine /\ [][NextEngine]_vars /\ WF_vars(DropSender) /\ WF_vars(EngineTask)

\* The same engine, with services that may leave a request unanswered.
SpecUnanswered ==
    InitUnanswered /\ [][NextEngine]_vars /\ WF_vars(DropSender) /\ WF_vars(EngineTask)

(***************************************************************************)
(* Bot: the command router                                                 *)
(***************************************************************************)
UserIds == 1..MaxUsers

Plugins == 1..NumPlugins

\* The detail text a PluginError carries.
ErrorDetails == {"timeout", "HTTP 500"}

\* PluginError
PluginErrors ==
    [variant : {"ApiError", "ConfigError", "DiscordError", "Other"},
     detail : ErrorDetails]

\* PluginError::user_message answering with the error's own text.
UserMessage_LeaksDetail(e) == e.detail

\* PluginError::user_message
UserMessage(e) ==
    CASE e.variant = "ApiError" -> "A plugin API request failed. Check bot logs for details."
      [] e.variant = "ConfigError" -> "Plugin configuration error. Check bot logs for details."
      [] e.variant = "DiscordError" -> "Discord API error. Check bot logs for details."
      [] e.variant = "Other" -> "Something went wrong. Check bot logs for details."

\* What a plugin's handle_command may return: Ok(true), Ok(false) or Err(e).
HandleOutcomes ==
    {[ok |-> TRUE, handled |-> TRUE], [ok |-> TRUE, handled |-> FALSE]}
        \cup {[ok |-> FALSE, error |-> e] : e \in PluginErrors}

\* The interactions the gateway may deliver: slash commands and component
\* interactions (buttons, select menus), each from some user.
Interactions == [kind : {"Command", "Component"}, user : UserIds]

DeniedText == "You are not authorized to use this bot."

UnknownText == "Unknown command."

\* A response the router sends itself (always ephemeral).
RouterResponse(text) == [by |-> "router", content |-> text, ephemeral |-> TRUE]

\* The response a plugin sends when it handles the command.
PluginResponse(i) == [by |-> i, content |-> "handled", ephemeral |-> FALSE]

\* Bot::is_owner with every user accepted.
IsOwner_Anyone(user_id) == user_id \in UserIds

\* Bot::is_owner
IsOwner(user_id) == user_id = owner_id

\* Bot::new: the owner is configured; no interaction is in progress.
InitRouter ==
    /\ owner_id \in UserIds
    /\ RouterIdle
    /\ HistoryIdle
    /\ EngineIdle
    /\ CacheIdle
    /\ SnapshotIdle
    /\ PluginsIdle

\* The gateway calls interaction_create (after the previous call finished).
Receive(i) ==
    /\ routerPc \in {"idle", "done"}
    /\ interaction' = i
    /\ routerPc' = "received"
    /\ pluginIdx' = 0
    /\ called' = <<>>
    /\ responses' = <<>>
    /\ UNCHANGED owner_id
    /\ RouterOnly

\* `let Interaction::Command(command) = interaction else { return; }`
DropNonCommand ==
    /\ routerPc = "received"
    /\ interaction.kind # "Command"
    /\ routerPc' = "done"
    /\ UNCHANGED <<owner_id, interaction, pluginIdx, called, responses>>
    /\ RouterOnly

\* `if !self.is_owner(..)`: the fixed denial is sent and the call returns.
Deny ==
    /\ routerPc = "received"
    /\ interaction.kind = "Command"
    /\ ~IsOwner(interaction.user)
    /\ responses' = Append(responses, RouterResponse(DeniedText))
    /\ routerPc' = "done"
    /\ UNCHANGED <<owner_id, interaction, pluginIdx, called>>
    /\ RouterOnly

\* The owner's command enters `for plugin in &self.plugins`.
Admit ==
    /\ routerPc = "received"
    /\ interaction.kind = "Command"
    /\ IsOwner(interaction.user)
    /\ routerPc' = "walk"
    /\ pluginIdx' = 1
    /\ UNCHANGED <<owner_id, interaction, called, responses>>
    /\ RouterOnly

\* The loop with `Ok(true) => continue`: a claim does not end the walk.
CallPlugin_KeepsGoing(outcome) ==
    /\ routerPc = "walk"
    /\ pluginIdx \in Plugins
    /\ called' = Append(called, [plugin |-> pluginIdx, outcome |-> outcome])
    /\ IF outcome.ok
       THEN /\ pluginIdx' = pluginIdx + 1
            /\ responses' = IF outcome.handled
                            THEN Append(responses, PluginResponse(pluginIdx))
                            ELSE responses
            /\ UNCHANGED routerPc
       ELSE /\ responses' = Append(responses, RouterResponse(UserMessage(outcome.error)))
            /\ routerPc' = "done"
            /\ UNCHANGED pluginIdx
    /\ UNCHANGED <<owner_id, interaction>>
    /\ RouterOnly

\* The loop with the Err arm logging only: an error does not end the walk.
CallPlugin_ErrorIgnored(outcome) ==
    /\ routerPc = "walk"
    /\ pluginIdx \in Plugins
    /\ called' = Append(called, [plugin |-> pluginIdx, outcome |-> outcome])
    /\ IF outcome.ok /\ outcome.handled
       THEN /\ responses' = Append(responses, PluginResponse(pluginIdx))
            /\ routerPc' = "done"
            /\ UNCHANGED pluginIdx
       ELSE /\ pluginIdx' = pluginIdx + 1
            /\ UNCHANGED <<routerPc, responses>>
    /\ UNCHANGED <<owner_id, interaction>>
    /\ RouterOnly

\* One iteration of the loop: plugin.handle_command(..).await and its match.
CallPlugin(outcome) ==
    /\ routerPc = "walk"
    /\ pluginIdx \in Plugins
    /\ called' = Append(called, [plugin |-> pluginIdx, outcome |-> outcome])
    /\ IF outcome.ok /\ outcome.handled
       THEN /\ responses' = Append(responses, PluginResponse(pluginIdx))
            /\ routerPc' = "done"
            /\ UNCHANGED pluginIdx
       ELSE IF outcome.ok
       THEN /\ pluginIdx' = pluginIdx + 1
            /\ UNCHANGED <<routerPc, responses>>
       ELSE /\ responses' = Append(responses, RouterResponse(UserMessage(outcome.error)))
            /\ routerPc' = "done"
            /\ UNCHANGED pluginIdx
    /\ UNCHANGED <<owner_id, interaction>>
    /\ RouterOnly

\* The end of the loop without the final create_response.
Unknown_Silent ==
    /\ routerPc = "walk"
    /\ pluginIdx = NumPlugins + 1
    /\ routerPc' = "done"
    /\ UNCHANGED <<owner_id, interaction, pluginIdx, called, responses>>
    /\ RouterOnly

\* The loop ended with no plugin claiming the command.
Unknown ==
    /\ routerPc = "walk"
    /\ pluginIdx = NumPlugins + 1
    /\ responses' = Append(responses, RouterResponse(UnknownText))
    /\ routerPc' = "done"
    /\ UNCHANGED <<owner_id, interaction, pluginIdx, called>>
    /\ RouterOnly

NextRouter ==
    \/ \E i \in Interactions : Receive(i)
    \/ DropNonCommand
    \/ Deny
    \/ Admit
    \/ \E outcome \in HandleOutcomes : CallPlugin(outcome)
    \/ Unknown

SpecRouter == InitRouter /\ [][NextRouter]_vars

(***************************************************************************)
(* ArrHistoryPoller on its own                                             *)
(***************************************************************************)
InitHistory ==
    /\ HistoryIdle /\ owner_id = 1 /\ RouterIdle /\ EngineIdle /\ CacheIdle
    /\ SnapshotIdle
    /\ PluginsIdle

\* One call of poll() on a poller of its own, recording what it worked on.
Poll(result) ==
    LET out == HistoryPoll(arrPoller, result) IN
    /\ arrPoller' = out.poller
    /\ prevPoller' = arrPoller
    /\ lastResult' = result
    /\ lastEvents' = out.events
    /\ calls' = (IF calls = "none" THEN "one" ELSE "many")
    /\ overPage' = (overPage \/ Len(result.records) > SeenCap)
    /\ failedBefore' = (calls # "none" /\ ~lastResult.ok)
    /\ UNCHANGED <<notifyCount, sincePrune>>
    /\ HistoryOnly

NextHistory == \E result \in FetchResults : Poll(result)

SpecHistory == InitHistory /\ [][NextHistory]_vars

\* One call of poll() in a run that counts the events of each record id.  The
\* run ends once some id has caused MaxNotify events.
PollRun(result) ==
    LET out == HistoryPoll(arrPoller, result) IN
    /\ \A id \in RecordIds : notifyCount[id] < MaxNotify
    /\ arrPoller' = out.poller
    /\ notifyCount' = [id \in RecordIds |-> notifyCount[id] + CountFor(out.events, id)]
    /\ sincePrune' = [id \in RecordIds |->
                         IF id \in arrPoller.seen_ids /\ id \notin out.poller.seen_ids
                         THEN 0
                         ELSE sincePrune[id] + CountFor(out.events, id)]
    /\ UNCHANGED <<prevPoller, lastResult, lastEvents, calls, overPage, failedBefore>>
    /\ HistoryOnly

NextHistoryRuns == \E result \in FetchResults : PollRun(result)

SpecHistoryRuns == InitHistory /\ [][NextHistoryRuns]_vars

(***************************************************************************)
(* The two pollers, each on its own                                        *)
(***************************************************************************)
\* UnraidDiskInfo.temperature: none, or below, at or above the threshold.
DiskTemps ==
    {None, Some(TempThreshold - 1), Some(TempThreshold), Some(TempThreshold + 1)}

\* The names of the server's disks and containers.
DiskName(k) == IF k = 1 THEN "disk1" ELSE "disk2"

ContainerName(k) == IF k = 1 THEN "plex" ELSE "sonarr"

\* `disks { name temperature }`: every disk of the server, in its order.
DiskLists ==
    {[k \in 1..NumDisks |-> [name |-> DiskName(k), temperature |-> temp[k]]] :
        temp \in [1..NumDisks -> DiskTemps]}

\* The sequence `per` with the entries that are <<>> left out and the others
\* unwrapped.
RECURSIVE Present(_)
Present(per) ==
    IF per = <<>> THEN <<>> ELSE Head(per) \o Present(Tail(per))

\* `docker { containers { names state } }`: each container the server knows
\* is listed with its state, or not listed at all.
ContainerLists ==
    {Present([k \in 1..NumContainers |->
                IF st[k] = "absent" THEN <<>>
                ELSE <<[names |-> <<ContainerName(k)>>, state |-> st[k]]>>]) :
        st \in [1..NumContainers -> ContainerStates \cup {"absent"}]}

\* UnraidPollData
SnapshotData == [array : ArrayStates, disks : DiskLists, containers : ContainerLists]

\* What UnraidPoller::query may return.
QueryResults == {UnraidFailed} \cup {UnraidOk(d) : d \in SnapshotData}

\* One call of poll() on an UnraidPoller of its own, recording what it worked
\* on; the history poller has made no call.
PollUnraid(result) ==
    LET out == UnraidPoll(unraidPoller, result) IN
    /\ calls = "none"
    /\ unraidPoller' = out.poller
    /\ lastData' = result
    /\ lastAlerts' = out.events
    /\ unraidCalls' = (IF unraidCalls = "none" THEN "one" ELSE "many")
    /\ alertedBefore' = {lastAlerts[i].title : i \in 1..Len(lastAlerts)}
    /\ lostTrack' =
          IF ~result.ok THEN lostTrack
          ELSE LET listed == result.data.containers
                   stored == unraidPoller.last_container_states
               IN  [forgotten |->
                       {n \in DOMAIN stored :
                           /\ stored[n] = "RUNNING"
                           /\ \A i \in 1..Len(listed) : DisplayName(listed[i]) # n},
                    reappeared |->
                       {n \in lostTrack.forgotten :
                           \E i \in 1..Len(listed) :
                              /\ DisplayName(listed[i]) = n
                              /\ listed[i].state # "RUNNING"}]
    /\ SnapshotOnly

\* One call of poll() on an ArrHistoryPoller of its own; the Unraid poller
\* has made no call.
PollHistory(result) == unraidCalls = "none" /\ Poll(result)

InitPollers ==
    /\ HistoryIdle
    /\ SnapshotIdle
    /\ PluginsIdle
    /\ owner_id = 1
    /\ RouterIdle
    /\ EngineIdle
    /\ CacheIdle

NextPollers ==
    \/ \E result \in FetchResults : PollHistory(result)
    \/ \E result \in QueryResults : PollUnraid(result)

SpecPollers == InitPollers /\ [][NextPollers]_vars

(***************************************************************************)
(* resolve_channels on its own, once at each start of the engine           *)
(***************************************************************************)
\* Channels a guild may hold before the engine first starts: two categories
\* whose names differ from "notifications" by case only, a text channel of
\* that name, and channels with the three names under either category or
\* under none.
GuildChannels ==
    {[id |-> 1, kind |-> "Category", name |-> "Notifications", parent |-> None],
     [id |-> 2, kind |-> "Category", name |-> "NOTIFICATIONS", parent |-> None],
     [id |-> 3, kind |-> "Text", name |-> "media-grabs", parent |-> Some(1)],
     [id |-> 4, kind |-> "Text", name |-> "media-grabs", parent |-> Some(1)],
     [id |-> 5, kind |-> "Text", name |-> "media-imports", parent |-> Some(1)],
     [id |-> 6, kind |-> "Text", name |-> "server-alerts", parent |-> None],
     [id |-> 7, kind |-> "Text", name |-> "media-imports", parent |-> Some(2)],
     [id |-> 8, kind |-> "Text", name |-> "notifications", parent |-> None]}

\* The guilds of at most MaxExisting of these channels in which every
\* channel's parent is a category of the guild.
Guilds ==
    {g \in SUBSET GuildChannels :
        /\ Cardinality(g) <= MaxExisting
        /\ \A ch \in g :
              ch.parent # None =>
                 \E cat \in g : cat.kind = "Category" /\ cat.id = ch.parent[1]}

\* Starters that make start() call resolve_channels: a guild id, no fallback.
ResolverStarters ==
    [guild_id : {Some(1)}, poll_interval_secs : {60}, temp_threshold : {50},
     sonarr : {FALSE}, radarr : {FALSE}, unraid : {FALSE},
     grabs_channel_id : {None, Some(21)}, imports_channel_id : {None, Some(22)},
     alerts_channel_id : {None, Some(23)}, fallback_channel_id : {None}]

InitResolver ==
    /\ starter \in ResolverStarters
    /\ guild \in Guilds
    /\ feed = [Sonarr |-> <<>>, Radarr |-> <<>>, Unraid |-> <<>>]
    /\ enginePc = "absent"
    /\ EngineRest
    /\ HistoryIdle
    /\ SnapshotIdle
    /\ PluginsIdle
    /\ owner_id = 1
    /\ RouterIdle
    /\ CacheIdle

\* One start of the bot: start() calls resolve_channels on the guild as the
\* starts before left it.
ResolveRun(fail) ==
    /\ Len(resolved) < MaxResolves
    /\ \E out \in ResolveChannels(guild, starter, fail) :
          /\ guild' = out.guild
          /\ resolved' = Append(resolved, ResultOf(out))
    /\ UNCHANGED <<starter, feed, feedPos, senderAlive, shutdownValue, enginePc,
                   channels, pollers, pollIdx, outbox, sent, tickNo, polled>>
    /\ EngineOnly

NextResolver == \E fail \in ResolveFailures : ResolveRun(fail)

SpecResolver == InitResolver /\ [][NextResolver]_vars

(***************************************************************************)
(* RequestPlugin: the pending map, its lock, and the three handlers        *)
(***************************************************************************)
\* `req.created_at.elapsed().as_secs() < 900`
TTL == 900

\* The clock is read at multiples of half the time to live.
TimeStep == TTL \div 2

\* Which target services the plugin was built with.
PluginConfigs ==
    {[sonarr |-> TRUE, radarr |-> FALSE],
     [sonarr |-> FALSE, radarr |-> FALSE]}

Services == {"sonarr", "radarr"}

\* The items kept for the search made by call t (two results of the indexer).
ItemsOf(t) == <<[title |-> <<t, "a">>], [title |-> <<t, "b">>]>>

\* The indexes a component may carry: the first item, and one past the last.
Indexes == {0, Len(ItemsOf(1))}

\* Vec::get(index), indexes counted from 0.
VecGet(v, index) == IF index < Len(v) THEN Some(v[index + 1]) ELSE None

\* Instant::elapsed().as_secs()
Elapsed(created_at) == now - created_at

\* `pending.retain(|_, req| req.created_at.elapsed().as_secs() < 900)`
Retain(m) == [k \in {x \in DOMAIN m : Elapsed(m[x].created_at) < TTL} |-> m[k]]

\* HashMap::remove leaving the entry where it is.
MapRemove_Noop(m, k) == m

\* HashMap::remove
MapRemove(m, k) == [x \in DOMAIN m \ {k} |-> m[x]]

\* match service { "sonarr" => self.sonarr, "radarr" => self.radarr, _ => None }
ClientOf(service) ==
    IF service = "sonarr" THEN plugin.sonarr
    ELSE IF service = "radarr" THEN plugin.radarr
    ELSE FALSE

\* tokio's RwLock hands out guards in arrival order.  No write guard is held
\* across an await, so only the read guards and the waiters are kept.
Enqueue(t, mode) == Append(lockQueue, [task |-> t, mode |-> mode])

ReadGranted(t) ==
    lockQueue # <<>> /\ Head(lockQueue) = [task |-> t, mode |-> "read"]

WriteGranted(t) ==
    /\ lockQueue # <<>>
    /\ Head(lockQueue) = [task |-> t, mode |-> "write"]
    /\ lockReaders = {}

\* Handler calls are numbered in the order they are made.
FirstFree(t) ==
    /\ tasks[t].kind = "none"
    /\ \A u \in 1..(t - 1) : tasks[u].kind # "none"

Finish(t, result) == [tasks[t] EXCEPT !.pc = "done", !.result = result]

\* The texts of the errors that handle_select and handle_add build.
ExpiredText == "This request has expired. Please search again."

InvalidSelectionText == "Invalid selection."

\* The PluginError behind the result of a handler call that returned Err.
ErrorOf(result) ==
    CASE result = "Expired" -> [variant |-> "Other", detail |-> ExpiredText]
      [] result = "InvalidSelection" ->
            [variant |-> "Other", detail |-> InvalidSelectionText]
      [] result = "NotConfigured" -> [variant |-> "Other", detail |-> "not configured"]
      [] result = "Other" -> [variant |-> "Other", detail |-> "nothing found"]
      [] result = "ApiError" -> [variant |-> "ApiError", detail |-> "request failed"]
      [] result = "DiscordError" -> [variant |-> "DiscordError", detail |-> "send failed"]

\* What the error of a finished call gives the end user: the only way an Err
\* of a plugin reaches the user is `e.user_message()` in interaction_create.
UserSees(t) == UserMessage(ErrorOf(tasks[t].result))

InitCache ==
    /\ plugin \in PluginConfigs
    /\ CacheRest
    /\ HistoryIdle
    /\ owner_id = 1
    /\ RouterIdle
    /\ EngineIdle
    /\ SnapshotIdle
    /\ PluginsIdle

\* The clock moves on.
Tick ==
    /\ now + TimeStep <= MaxTime
    /\ now' = now + TimeStep
    /\ UNCHANGED <<plugin, pending, tasks, lockReaders, lockQueue, shown, added,
                   history>>
    /\ CacheOnly

\* handle_search is called; it first asks for the write guard of cleanup_expired.
\* The session id is command.id, unique to the call.
StartSearch(t) ==
    /\ FirstFree(t)
    /\ tasks' = [tasks EXCEPT ![t] =
                    [NoTask EXCEPT !.kind = "search", !.pc = "cleanup", !.id = t]]
    /\ lockQueue' = Enqueue(t, "write")
    /\ UNCHANGED <<plugin, pending, now, lockReaders, shown, added, history>>
    /\ CacheOnly

\* cleanup_expired: under the write guard, keep the entries younger than TTL.
CleanupExpired(t) ==
    /\ tasks[t].kind = "search" /\ tasks[t].pc = "cleanup"
    /\ WriteGranted(t)
    /\ pending' = Retain(pending)
    /\ history' = [id \in Tasks |->
                      IF id \in DOMAIN pending /\ id \notin DOMAIN Retain(pending)
                      THEN [history[id] EXCEPT !.swept = TRUE]
                      ELSE history[id]]
    /\ lockQueue' = Tail(lockQueue)
    /\ tasks' = [tasks EXCEPT ![t].pc = "prowlarr"]
    /\ UNCHANGED <<plugin, now, lockReaders, shown, added>>
    /\ CacheOnly

\* The indexer answers the search: an error, no result, or some results.
ProwlarrReturns(t, outcome) ==
    /\ tasks[t].kind = "search" /\ tasks[t].pc = "prowlarr"
    /\ CASE outcome = "error" ->
              /\ tasks' = [tasks EXCEPT ![t] = Finish(t, "ApiError")]
              /\ UNCHANGED lockQueue
         [] outcome = "empty" ->
              /\ tasks' = [tasks EXCEPT ![t].pc = "respond_empty"]
              /\ UNCHANGED lockQueue
         [] outcome = "results" ->
              /\ tasks' = [tasks EXCEPT ![t].pc = "insert",
                                        ![t].items = ItemsOf(t)]
              /\ lockQueue' = Enqueue(t, "write")
    /\ UNCHANGED <<plugin, pending, now, lockReaders, shown, added, history>>
    /\ CacheOnly

\* `self.pending.write().await.insert(id, PendingRequest { results, created_at })`
Insert(t) ==
    /\ tasks[t].kind = "search" /\ tasks[t].pc = "insert"
    /\ WriteGranted(t)
    /\ pending' = MapInsert(pending, tasks[t].id,
                            [results |-> tasks[t].items, created_at |-> now])
    /\ history' = [history EXCEPT ![tasks[t].id].inserted = Some(now)]
    /\ lockQueue' = Tail(lockQueue)
    /\ tasks' = [tasks EXCEPT ![t].pc = "respond"]
    /\ UNCHANGED <<plugin, now, lockReaders, shown, added>>
    /\ CacheOnly

\* create_response of handle_search: the menu (or "No results") reaches the
\* user, or Discord fails.
SearchRespond(t, ok) ==
    /\ tasks[t].kind = "search" /\ tasks[t].pc \in {"respond", "respond_empty"}
    /\ tasks' = [tasks EXCEPT ![t] = Finish(t, IF ok THEN "Ok" ELSE "DiscordError")]
    /\ shown' = IF ok /\ tasks[t].pc = "respond" THEN shown \cup {tasks[t].id}
                ELSE shown
    /\ UNCHANGED <<plugin, pending, now, lockReaders, lockQueue, added, history>>
    /\ CacheOnly

\* What `pending.get(id)` followed by `req.results.get(index)` gives.
Lookup(id, index) ==
    IF id \notin DOMAIN pending THEN [found |-> "no", item |-> None]
    ELSE [found |-> "yes", item |-> VecGet(pending[id].results, index)]

\* handle_select is called for a menu that is on screen.
StartSelect(t, id, index) ==
    /\ FirstFree(t)
    /\ id \in shown
    /\ tasks' = [tasks EXCEPT ![t] =
                    [NoTask EXCEPT !.kind = "select", !.pc = "read", !.id = id,
                                   !.index = index]]
    /\ lockQueue' = Enqueue(t, "read")
    /\ UNCHANGED <<plugin, pending, now, lockReaders, shown, added, history>>
    /\ CacheOnly

\* handle_select gets the read guard and looks the request and the item up.
\* The guard lives until the function returns.
SelectLookup(t) ==
    /\ tasks[t].kind = "select" /\ tasks[t].pc = "read"
    /\ ReadGranted(t)
    /\ lockQueue' = Tail(lockQueue)
    /\ LET got  == Lookup(tasks[t].id, tasks[t].index)
           seen == [tasks[t] EXCEPT !.found = got.found, !.lookupAt = now]
       IN  IF got.found = "no"
           THEN /\ tasks' = [tasks EXCEPT ![t] =
                                [seen EXCEPT !.pc = "done", !.result = "Expired"]]
                /\ UNCHANGED lockReaders
           ELSE IF got.item = None
           THEN /\ tasks' = [tasks EXCEPT ![t] =
                                [seen EXCEPT !.pc = "done",
                                             !.result = "InvalidSelection"]]
                /\ UNCHANGED lockReaders
           ELSE /\ tasks' = [tasks EXCEPT ![t] =
                                [seen EXCEPT !.pc =
                                    IF plugin.sonarr \/ plugin.radarr
                                    THEN "respond" ELSE "respond_unconfigured"]]
                /\ lockReaders' = lockReaders \cup {t}
    /\ UNCHANGED <<plugin, pending, now, shown, added, history>>
    /\ CacheOnly

\* handle_select removing the request when it has answered.
SelectRespond_Removes(t, ok) ==
    /\ tasks[t].kind = "select"
    /\ tasks[t].pc \in {"respond", "respond_unconfigured"}
    /\ tasks' = [tasks EXCEPT ![t] = Finish(t, IF ok THEN "Ok" ELSE "DiscordError")]
    /\ lockReaders' = lockReaders \ {t}
    /\ pending' = MapRemove(pending, tasks[t].id)
    /\ UNCHANGED <<plugin, now, lockQueue, shown, added, history>>
    /\ CacheOnly

\* create_response of handle_select; the read guard is dropped on return.
SelectRespond(t, ok) ==
    /\ tasks[t].kind = "select"
    /\ tasks[t].pc \in {"respond", "respond_unconfigured"}
    /\ tasks' = [tasks EXCEPT ![t] = Finish(t, IF ok THEN "Ok" ELSE "DiscordError")]
    /\ lockReaders' = lockReaders \ {t}
    /\ UNCHANGED <<plugin, pending, now, lockQueue, shown, added, history>>
    /\ CacheOnly

\* handle_add is called for a menu that is on screen (handle_select leaves the
\* map as it is, so its buttons exist whenever the menu does).
StartAdd(t, id, service, index) ==
    /\ FirstFree(t)
    /\ id \in shown
    /\ tasks' = [tasks EXCEPT ![t] =
                    [NoTask EXCEPT !.kind = "add", !.pc = "read", !.id = id,
                                   !.index = index, !.service = service]]
    /\ lockQueue' = Enqueue(t, "read")
    /\ UNCHANGED <<plugin, pending, now, lockReaders, shown, added, history>>
    /\ CacheOnly

\* handle_add gets the read guard, looks the request and the item up and picks
\* the client.  The guard is kept over the requests that follow.
AddLookup(t) ==
    /\ tasks[t].kind = "add" /\ tasks[t].pc = "read"
    /\ ReadGranted(t)
    /\ lockQueue' = Tail(lockQueue)
    /\ LET got  == Lookup(tasks[t].id, tasks[t].index)
           seen == [tasks[t] EXCEPT !.found = got.found, !.lookupAt = now]
           err  == IF got.found = "no" THEN "Expired"
                   ELSE IF got.item = None THEN "InvalidSelection"
                   ELSE IF ~ClientOf(tasks[t].service) THEN "NotConfigured"
                   ELSE "none"
       IN  IF err # "none"
           THEN /\ tasks' = [tasks EXCEPT ![t] =
                                [seen EXCEPT !.pc = "done", !.result = err]]
                /\ UNCHANGED lockReaders
           ELSE /\ tasks' = [tasks EXCEPT ![t] = [seen EXCEPT !.pc = "rootfolder"]]
                /\ lockReaders' = lockReaders \cup {t}
    /\ UNCHANGED <<plugin, pending, now, shown, added, history>>
    /\ CacheOnly

\* The order of the three GET requests of handle_add, and what follows them.
AfterGet(pc) ==
    IF pc = "rootfolder" THEN "qualityprofile"
    ELSE IF pc = "qualityprofile" THEN "lookup"
    ELSE "post"

\* GET rootfolder, GET qualityprofile, GET series/lookup or movie/lookup: the
\* request fails, or answers an empty list, or answers what is needed.
AddGet(t, outcome) ==
    /\ tasks[t].kind = "add"
    /\ tasks[t].pc \in {"rootfolder", "qualityprofile", "lookup"}
    /\ IF outcome = "ok"
       THEN /\ tasks' = [tasks EXCEPT ![t].pc = AfterGet(tasks[t].pc)]
            /\ UNCHANGED lockReaders
       ELSE /\ tasks' = [tasks EXCEPT ![t] =
                            Finish(t, IF outcome = "error" THEN "ApiError"
                                      ELSE "Other")]
            /\ lockReaders' = lockReaders \ {t}
    /\ UNCHANGED <<plugin, pending, now, lockQueue, shown, added, history>>
    /\ CacheOnly

AddPost_FailureRemoves(t, ok) ==
    /\ tasks[t].kind = "add" /\ tasks[t].pc = "post"
    /\ IF ok
       THEN /\ tasks' = [tasks EXCEPT ![t].pc = "respond"]
            /\ added' = Append(added,
                   [task |-> t, id |-> tasks[t].id, service |-> tasks[t].service,
                    title |-> pending[tasks[t].id].results[tasks[t].index + 1].title])
            /\ UNCHANGED <<lockReaders, pending>>
       ELSE /\ tasks' = [tasks EXCEPT ![t] = Finish(t, "ApiError")]
            /\ lockReaders' = lockReaders \ {t}
            /\ pending' = MapRemove(pending, tasks[t].id)
            /\ UNCHANGED added
    /\ UNCHANGED <<plugin, now, lockQueue, shown, history>>
    /\ CacheOnly

\* POST series or POST movie: the add itself.
AddPost(t, ok) ==
    /\ tasks[t].kind = "add" /\ tasks[t].pc = "post"
    /\ IF ok
       THEN /\ tasks' = [tasks EXCEPT ![t].pc = "respond"]
            /\ added' = Append(added,
                   [task |-> t, id |-> tasks[t].id, service |-> tasks[t].service,
                    title |-> pending[tasks[t].id].results[tasks[t].index + 1].title])
            /\ UNCHANGED lockReaders
       ELSE /\ tasks' = [tasks EXCEPT ![t] = Finish(t, "ApiError")]
            /\ lockReaders' = lockReaders \ {t}
            /\ UNCHANGED added
    /\ UNCHANGED <<plugin, pending, now, lockQueue, shown, history>>
    /\ CacheOnly

AddRespond_KeepsGuard(t, ok) ==
    /\ tasks[t].kind = "add" /\ tasks[t].pc = "respond"
    /\ IF ok
       THEN /\ tasks' = [tasks EXCEPT ![t].pc = "remove"]
            /\ lockQueue' = Enqueue(t, "write")
            /\ UNCHANGED lockReaders
       ELSE /\ tasks' = [tasks EXCEPT ![t] = Finish(t, "DiscordError")]
            /\ lockReaders' = lockReaders \ {t}
            /\ UNCHANGED lockQueue
    /\ UNCHANGED <<plugin, pending, now, shown, added, history>>
    /\ CacheOnly

\* create_response of handle_add, then `drop(pending)` and the request for
\* the write guard.
AddRespond(t, ok) ==
    /\ tasks[t].kind = "add" /\ tasks[t].pc = "respond"
    /\ lockReaders' = lockReaders \ {t}
    /\ IF ok
       THEN /\ tasks' = [tasks EXCEPT ![t].pc = "remove"]
            /\ lockQueue' = Enqueue(t, "write")
       ELSE /\ tasks' = [tasks EXCEPT ![t] = Finish(t, "DiscordError")]
            /\ UNCHANGED lockQueue
    /\ UNCHANGED <<plugin, pending, now, shown, added, history>>
    /\ CacheOnly

\* `self.pending.write().await.remove(id)`
AddRemove(t) ==
    /\ tasks[t].kind = "add" /\ tasks[t].pc = "remove"
    /\ WriteGranted(t)
    /\ lockQueue' = Tail(lockQueue)
    /\ pending' = MapRemove(pending, tasks[t].id)
    /\ history' = IF tasks[t].id \in DOMAIN pending
                  THEN [history EXCEPT ![tasks[t].id].removed = TRUE]
                  ELSE history
    /\ tasks' = [tasks EXCEPT ![t] = Finish(t, "Ok")]
    /\ UNCHANGED <<plugin, now, lockReaders, shown, added>>
    /\ CacheOnly

NextCache ==
    \/ Tick
    \/ \E t \in Tasks : StartSearch(t)
    \/ \E t \in Tasks : CleanupExpired(t)
    \/ \E t \in Tasks, outcome \in {"error", "empty", "results"} :
          ProwlarrReturns(t, outcome)
    \/ \E t \in Tasks : Insert(t)
    \/ \E t \in Tasks, ok \in BOOLEAN : SearchRespond(t, ok)
    \/ \E t \in Tasks, id \in Tasks, index \in Indexes : StartSelect(t, id, index)
    \/ \E t \in Tasks : SelectLookup(t)
    \/ \E t \in Tasks, ok \in BOOLEAN : SelectRespond(t, ok)
    \/ \E t \in Tasks, id \in Tasks, service \in Services, index \in Indexes :
          StartAdd(t, id, service, index)
    \/ \E t \in Tasks : AddLookup(t)
    \/ \E t \in Tasks, outcome \in {"ok", "error", "empty"} : AddGet(t, outcome)
    \/ \E t \in Tasks, ok \in BOOLEAN : AddPost(t, ok)
    \/ \E t \in Tasks, ok \in BOOLEAN : AddRespond(t, ok)
    \/ \E t \in Tasks : AddRemove(t)

SpecCache == InitCache /\ [][NextCache]_vars

\* A step of a handler call that has been made: a guard is granted, or a
\* network call returns.
HandlerStep ==
    \/ \E t \in Tasks : CleanupExpired(t)
    \/ \E t \in Tasks, outcome \in {"error", "empty", "results"} :
          ProwlarrReturns(t, outcome)
    \/ \E t \in Tasks : Insert(t)
    \/ \E t \in Tasks, ok \in BOOLEAN : SearchRespond(t, ok)
    \/ \E t \in Tasks : SelectLookup(t)
    \/ \E t \in Tasks, ok \in BOOLEAN : SelectRespond(t, ok)
    \/ \E t \in Tasks : AddLookup(t)
    \/ \E t \in Tasks, outcome \in {"ok", "error", "empty"} : AddGet(t, outcome)
    \/ \E t \in Tasks, ok \in BOOLEAN : AddPost(t, ok)
    \/ \E t \in Tasks, ok \in BOOLEAN : AddRespond(t, ok)
    \/ \E t \in Tasks : AddRemove(t)

\* The handlers when every network call returns and the runtime keeps
\* running the calls that can go on.
SpecCacheLive == InitCache /\ [][NextCache]_vars /\ WF_vars(HandlerStep)

(***************************************************************************)
(* ClaudePlugin: the conversations map                                     *)
(***************************************************************************)
\* Vec::push on a conversation's history; a Message is kept by its role.
Push(messages, role) == Append(messages, role)

\* `ask`, up to the backend call: under the write guard the prompt is pushed
\* to the channel's history when there is one, and `messages` is that history
\* or the prompt alone; the guard is dropped before backend.complete is
\* awaited.
AskBegin(a, ch) ==
    /\ asks[a].pc \in {"idle", "done"}
    /\ commands < MaxCommands
    /\ commands' = commands + 1
    /\ conversations' =
           IF ch \in DOMAIN conversations
           THEN [conversations EXCEPT ![ch] = Push(@, "user")]
           ELSE conversations
    /\ asks' = [asks EXCEPT ![a] =
                    [pc |-> "backend", channel |-> ch, result |-> "none",
                     messages |-> IF ch \in DOMAIN conversations
                                  THEN Push(conversations[ch], "user")
                                  ELSE <<"user">>]]
    /\ UNCHANGED <<lastOp, chunkInput, chunkOutput>>
    /\ ClaudeOnly

\* backend.complete answers: an error leaves the handler through `?`.
AskBackend(a, ok) ==
    /\ asks[a].pc = "backend"
    /\ asks' = [asks EXCEPT ![a].pc = IF ok THEN "store" ELSE "done",
                             ![a].result = IF ok THEN "none" ELSE "ApiError"]
    /\ UNCHANGED <<conversations, lastOp, commands, chunkInput, chunkOutput>>
    /\ ClaudeOnly

\* The second guard of `ask` then inserting the channel when it is missing.
AskEnd_Inserts(a) ==
    /\ asks[a].pc = "store"
    /\ conversations' =
           MapInsert(conversations, asks[a].channel,
                     IF asks[a].channel \in DOMAIN conversations
                     THEN Push(conversations[asks[a].channel], "assistant")
                     ELSE <<"assistant">>)
    /\ asks' = [asks EXCEPT ![a].pc = "done", ![a].result = "response"]
    /\ UNCHANGED <<lastOp, commands, chunkInput, chunkOutput>>
    /\ ClaudeOnly

\* `ask`, after the backend call: under a new write guard the answer is
\* pushed to the channel's history if the channel still has one; the answer
\* is then sent in chunks, which touches nothing of the plugin.
AskEnd(a) ==
    /\ asks[a].pc = "store"
    /\ conversations' =
           IF asks[a].channel \in DOMAIN conversations
           THEN [conversations EXCEPT ![asks[a].channel] = Push(@, "assistant")]
           ELSE conversations
    /\ asks' = [asks EXCEPT ![a].pc = "done", ![a].result = "response"]
    /\ UNCHANGED <<lastOp, commands, chunkInput, chunkOutput>>
    /\ ClaudeOnly

\* `conversation start`: insert(channel_id, Vec::new()), over any history
\* the channel had.
ConversationStart(ch) ==
    /\ commands < MaxCommands
    /\ commands' = commands + 1
    /\ conversations' = MapInsert(conversations, ch, <<>>)
    /\ lastOp' = [lastOp EXCEPT ![ch] = "start"]
    /\ UNCHANGED <<asks, chunkInput, chunkOutput>>
    /\ ClaudeOnly

\* `conversation end`: remove(&channel_id), whether or not it was there.
ConversationEnd(ch) ==
    /\ commands < MaxCommands
    /\ commands' = commands + 1
    /\ conversations' = MapRemove(conversations, ch)
    /\ lastOp' = [lastOp EXCEPT ![ch] = "end"]
    /\ UNCHANGED <<asks, chunkInput, chunkOutput>>
    /\ ClaudeOnly

InitClaude ==
    /\ ClaudeIdle
    /\ QbitIdle
    /\ HistoryIdle
    /\ owner_id = 1
    /\ RouterIdle
    /\ EngineIdle
    /\ CacheIdle
    /\ SnapshotIdle

NextClaude ==
    \/ \E a \in 1 .. NumAsks, ch \in Channels : AskBegin(a, ch)
    \/ \E a \in 1 .. NumAsks, ok \in BOOLEAN : AskBackend(a, ok)
    \/ \E a \in 1 .. NumAsks : AskEnd(a)
    \/ \E ch \in Channels : ConversationStart(ch)
    \/ \E ch \in Channels : ConversationEnd(ch)

SpecClaude == InitClaude /\ [][NextClaude]_vars

(***************************************************************************)
(* QbitClient: login, ensure_logged_in, get and post_form                  *)
(***************************************************************************)
\* What the login POST can come to: a body, or no answer at all.
LoginAnswers == {"Ok.", "Fails.", "NetworkError"}

\* `text.contains("Ok")` on an answer that arrived.
LoginSucceeds(answer) == answer = "Ok."

\* What a request to an endpoint can come to.
Statuses == {"200", "403", "NetworkError"}

\* get or post_form is called; ensure_logged_in reads the flag and goes to
\* login only when it reads false.
Ensure(r) ==
    /\ requests[r].pc = "idle"
    /\ requests' = [requests EXCEPT
           ![r].pc = IF logged_in THEN "send" ELSE "login",
           ![r].first_login = ~logged_in]
    /\ UNCHANGED logged_in
    /\ QbitOnly

\* login up to the answer's text: anything but a body with "Ok" in it is an
\* Err that `?` carries out of the request; the flag is not touched.
LoginPost(r, answer) ==
    /\ requests[r].pc \in {"login", "relogin"}
    /\ requests' = [requests EXCEPT
           ![r].pc = IF LoginSucceeds(answer)
                     THEN (IF @ = "login" THEN "store" ELSE "restore")
                     ELSE "done",
           ![r].relogins = IF requests[r].pc = "relogin" THEN @ + 1 ELSE @,
           ![r].result = IF LoginSucceeds(answer) THEN @ ELSE "LoginFailed"]
    /\ UNCHANGED logged_in
    /\ QbitOnly

\* login's `*self.logged_in.write().await = true`
LoginStore(r) ==
    /\ requests[r].pc \in {"store", "restore"}
    /\ logged_in' = TRUE
    /\ requests' = [requests EXCEPT ![r].pc = IF @ = "store" THEN "send" ELSE "retry"]
    /\ QbitOnly

\* The request is sent: a 403 leads to the re-login, another status ends the
\* request with what the body gives, no answer ends it with an Err.
Send(r, status) ==
    /\ requests[r].pc = "send"
    /\ requests' = [requests EXCEPT
           ![r].pc = IF status = "403" THEN "expired" ELSE "done",
           ![r].forbidden = (status = "403"),
           ![r].result = CASE status = "403" -> @
                           [] status = "200" -> "Ok"
                           [] OTHER -> "ApiError"]
    /\ UNCHANGED logged_in
    /\ QbitOnly

\* After a 403: `*self.logged_in.write().await = false`, then login.
Expire(r) ==
    /\ requests[r].pc = "expired"
    /\ logged_in' = FALSE
    /\ requests' = [requests EXCEPT ![r].pc = "relogin"]
    /\ QbitOnly

\* The request is sent once more; its status is not looked at.
Retry(r, status) ==
    /\ requests[r].pc = "retry"
    /\ requests' = [requests EXCEPT
           ![r].pc = "done",
           ![r].retries = @ + 1,
           ![r].result = IF status = "NetworkError" THEN "ApiError" ELSE "Ok"]
    /\ UNCHANGED logged_in
    /\ QbitOnly

InitQbit ==
    /\ QbitIdle
    /\ ClaudeIdle
    /\ HistoryIdle
    /\ owner_id = 1
    /\ RouterIdle
    /\ EngineIdle
    /\ CacheIdle
    /\ SnapshotIdle

NextQbit ==
    \/ \E r \in 1 .. NumRequests : Ensure(r)
    \/ \E r \in 1 .. NumRequests, answer \in LoginAnswers : LoginPost(r, answer)
    \/ \E r \in 1 .. NumRequests : LoginStore(r)
    \/ \E r \in 1 .. NumRequests, status \in Statuses : Send(r, status)
    \/ \E r \in 1 .. NumRequests : Expire(r)
    \/ \E r \in 1 .. NumRequests, status \in Statuses : Retry(r, status)

SpecQbit == InitQbit /\ [][NextQbit]_vars

(***************************************************************************)
(* chunk_message                                                           *)
(***************************************************************************)
\* A &str is held as its UTF-8 bytes: 'a', '\n', and the two bytes of a
\* two-byte character (0xC3 0xA9).
Bytes == {"a", "\n", "C3", "A9"}

\* The byte sequences that are valid UTF-8: 0xC3 is followed by 0xA9 and 0xA9
\* only follows 0xC3.
IsStr(s) ==
    \A i \in 1 .. Len(s) :
        /\ s[i] = "C3" => (i < Len(s) /\ s[i + 1] = "A9")
        /\ s[i] = "A9" => (i > 1 /\ s[i - 1] = "C3")

Strs == {s \in UNION {[1 .. n -> Bytes] : n \in 0 .. MaxLen} : IsStr(s)}

\* str::is_char_boundary(index), index counted from 0
IsCharBoundary(s, index) ==
    \/ index = 0
    \/ index = Len(s)
    \/ index < Len(s) /\ s[index + 1] # "A9"

\* `s[..end].rfind('\n')`: the index, from 0, of the last newline.
RFind(s, end) ==
    LET at == {i \in 1 .. end : s[i] = "\n"}
    IN  IF at = {} THEN None ELSE Some((CHOOSE i \in at : \A j \in at : j <= i) - 1)

\* The `split_at` of one turn of the loop, `.unwrap_or(max_len)` included.
SplitAt(remaining, max_len) ==
    IF Len(remaining) <= max_len
    THEN Len(remaining)
    ELSE IF RFind(remaining, max_len) = None
         THEN max_len
         ELSE RFind(remaining, max_len)[1]

\* `remaining = &remaining[split_at..]`, then without its first byte when
\* that is a newline.
Remaining(remaining, split_at) ==
    LET rest == SubSeq(remaining, split_at + 1, Len(remaining))
    IN  IF rest # <<>> /\ Head(rest) = "\n" THEN Tail(rest) ELSE rest

RECURSIVE ChunkLoop(_, _, _, _)
\* The while loop, for at most `turns` turns. `remaining[..max_len]` panics
\* when max_len is inside a character.
ChunkLoop(remaining, max_len, chunks, turns) ==
    IF remaining = <<>> THEN [end |-> "returned", chunks |-> chunks]
    ELSE IF turns = 0 THEN [end |-> "running", chunks |-> chunks]
    ELSE IF Len(remaining) > max_len /\ ~IsCharBoundary(remaining, max_len)
    THEN [end |-> "panicked", chunks |-> chunks]
    ELSE LET split_at == SplitAt(remaining, max_len)
         IN  ChunkLoop(Remaining(remaining, split_at), max_len,
                       Append(chunks, SubSeq(remaining, 1, split_at)), turns - 1)

\* chunk_message(text, max_len), its loop followed for one turn per byte of
\* the text and one more.
chunk_message(text, max_len) ==
    IF Len(text) <= max_len
    THEN [end |-> "returned", chunks |-> <<text>>]
    ELSE ChunkLoop(text, max_len, <<>>, Len(text) + 1)

\* A call of chunk_message.
Chunk ==
    /\ chunkOutput = None
    /\ chunkOutput' = Some(chunk_message(chunkInput.text, chunkInput.max_len))
    /\ UNCHANGED <<conversations, asks, lastOp, commands, chunkInput>>
    /\ ClaudeOnly

InitChunk ==
    /\ chunkInput \in [text : Strs, max_len : 1 .. MaxLen]
    /\ chunkOutput = None
    /\ conversations = <<>>
    /\ asks = [a \in 1 .. NumAsks |-> NewAsk]
    /\ lastOp = [c \in Channels |-> "none"]
    /\ commands = 0
    /\ QbitIdle
    /\ HistoryIdle
    /\ owner_id = 1
    /\ RouterIdle
    /\ EngineIdle
    /\ CacheIdle
    /\ SnapshotIdle

NextChunk == Chunk

SpecChunk == InitChunk /\ [][NextChunk]_vars

(***************************************************************************)
(* Properties of ArrHistoryPoller::poll                                    *)
(***************************************************************************)
RecognisedTypes == {"grabbed", "downloadFolderImported"}

\* The positions of `records` that hold the first record of their id.
FirstOccurrences(records) ==
    {i \in 1..Len(records) : \A j \in 1..(i - 1) : records[j].id # records[i].id}

\* The positions whose record is new to the seen set S and of a recognised type.
NewRecognised(S, records) ==
    {i \in FirstOccurrences(records) :
        records[i].id \notin S /\ records[i].event_type \in RecognisedTypes}

CategoryOf(event_type) ==
    IF event_type = "grabbed" THEN "MediaGrab" ELSE "MediaImport"

\* C5: the first call of poll() after construction (and every call made while
\* first_poll is still set) returns no event, whatever the page holds, and
\* after a successful one every record id of the page is in seen_ids.
C5_FirstPollSuppressed ==
    (calls # "none" /\ prevPoller.first_poll) =>
        /\ lastEvents = <<>>
        /\ lastResult.ok =>
              IdsOf(lastResult.records) \subseteq arrPoller.seen_ids

\* C5 witness: the very first call fetched two records of recognised types
\* and returned nothing, with both ids now seen.
C5_Witness ==
    /\ calls = "one"
    /\ lastResult.ok
    /\ Len(lastResult.records) = 2
    /\ lastResult.records[1].id # lastResult.records[2].id
    /\ \A i \in 1..2 : lastResult.records[i].event_type \in RecognisedTypes
    /\ lastEvents = <<>>
    /\ arrPoller.seen_ids = IdsOf(lastResult.records)

\* C6: after the baseline, a successful poll on seen set S and page P emits
\* exactly one event for each id of P that is not in S and whose (first) record
\* in P has a recognised type -- a Grab for grabbed, an Import for
\* downloadFolderImported -- and none for any other id; when no pruning
\* applies, seen_ids becomes S united with the ids of P.
C6_NewRecordDetection ==
    (calls # "none" /\ ~prevPoller.first_poll /\ lastResult.ok) =>
        LET S == prevPoller.seen_ids
            P == lastResult.records
            new == NewRecognised(S, P)
        IN  /\ Len(lastEvents) = Cardinality(new)
            /\ \A i \in new :
                  \E k \in 1..Len(lastEvents) :
                      /\ lastEvents[k].body[2] = P[i].id
                      /\ lastEvents[k].category = CategoryOf(P[i].event_type)
            /\ \A id \in RecordIds :
                  CountFor(lastEvents, id) =
                      (IF \E i \in new : P[i].id = id THEN 1 ELSE 0)
            /\ Cardinality(S \cup IdsOf(P)) <= SeenCap =>
                  arrPoller.seen_ids = S \cup IdsOf(P)

\* C6 witness: with {1} seen, the page [{id 2, grabbed}] gave exactly one Grab
\* event for record 2 and the seen set {1, 2}.
C6_Witness ==
    /\ calls = "many"
    /\ ~prevPoller.first_poll
    /\ prevPoller.seen_ids = {1}
    /\ lastResult = [ok |-> TRUE,
                     records |-> <<[id |-> 2, event_type |-> "grabbed"]>>]
    /\ lastEvents = <<[category |-> "MediaGrab", title |-> <<"Sonarr", "Grab">>,
                       body |-> <<"Grabbed", 2>>]>>
    /\ arrPoller.seen_ids = {1, 2}

\* C8: a successful poll that leaves more than SeenCap ids seen prunes seen_ids
\* to exactly the ids of the fetched page, at most as many as the page has records.
C8_PruneToPage ==
    (calls # "none" /\ lastResult.ok
        /\ Cardinality(prevPoller.seen_ids \cup IdsOf(lastResult.records)) > SeenCap) =>
        /\ arrPoller.seen_ids = IdsOf(lastResult.records)
        /\ Cardinality(arrPoller.seen_ids) <= Len(lastResult.records)

\* C8 witness: with {1, 2} seen a page holding only record 3 arrived; the set
\* exceeded the cap and was pruned to {3}.
C8_Witness ==
    /\ calls = "many"
    /\ prevPoller.seen_ids = {1, 2}
    /\ lastResult.ok
    /\ IdsOf(lastResult.records) = {3}
    /\ arrPoller.seen_ids = {3}

\* C9: as long as every fetched page held at most SeenCap records, seen_ids
\* holds at most SeenCap ids after every poll.
C9_SeenBounded ==
    ~overPage => Cardinality(arrPoller.seen_ids) <= SeenCap

\* C9 witness: the set reached the cap, and a later poll that met new ids left
\* it within the cap.
C9_Witness ==
    /\ ~overPage
    /\ calls = "many"
    /\ Cardinality(prevPoller.seen_ids) = SeenCap
    /\ lastResult.ok
    /\ ~(IdsOf(lastResult.records) \subseteq prevPoller.seen_ids)
    /\ Cardinality(arrPoller.seen_ids) <= SeenCap

\* C7 as stated: no record id ever causes more than one notification event.
C7_AtMostOncePerId ==
    \A id \in RecordIds : notifyCount[id] <= 1

\* C7 as amended: a record id causes at most one notification event for as
\* long as it stays in seen_ids; pruning may forget it, and it is then notified
\* again when it next appears.
C7_AtMostOnceWhileSeen ==
    \A id \in RecordIds :
        /\ sincePrune[id] <= 1
        /\ sincePrune[id] = 1 => id \in arrPoller.seen_ids

\* C7 witness: record 1 was notified, pruned away, and notified a second time.
C7_Witness ==
    /\ notifyCount[1] = 2
    /\ sincePrune[1] = 1
    /\ 1 \in arrPoller.seen_ids

(***************************************************************************)
(* Properties of Bot::interaction_create                                   *)
(***************************************************************************)
Unauthorized ==
    routerPc # "idle" /\ interaction.kind = "Command" /\ interaction.user # owner_id

\* C10: a command whose caller is not the owner never reaches a plugin: no
\* handle_command call is made, the only response is the fixed denial, sent by
\* the router, and the dispatch ends there.
C10_UnauthorizedShortCircuit ==
    Unauthorized =>
        /\ called = <<>>
        /\ routerPc \in {"received", "done"}
        /\ routerPc = "received" => responses = <<>>
        /\ routerPc = "done" => responses = <<RouterResponse(DeniedText)>>

\* C10 witness: a command of a user other than the owner was dispatched to
\* its end.
C10_Witness ==
    /\ Unauthorized
    /\ routerPc = "done"
    /\ called = <<>>
    /\ responses = <<RouterResponse(DeniedText)>>

(***************************************************************************)
(* Properties of the notification engine                                   *)
(***************************************************************************)
\* C2: a Running engine leaves Running only on a shutdown signal of the host:
\* whenever run() has returned, the watch channel carries a signalled value.
C2_StopsOnlyOnShutdown ==
    enginePc = "stopped" => shutdownValue

\* The end-to-end scenario: Sonarr's history poller is the only poller; its
\* first fetch returns record 1 (grabbed), the later ones records 1 and 2
\* (record 2 downloadFolderImported).
EndToEndScenario ==
    /\ starter.sonarr /\ ~starter.radarr /\ ~starter.unraid
    /\ feed.Sonarr = <<Ok(PageOne), Ok(PageTwo)>>

\* The one send the scenario expects: the Import event of record 2, to the
\* imports destination.
EndToEndSent(s) ==
    /\ Len(s) = 1
    /\ s[1].event.category = "MediaImport"
    /\ s[1].event.body = <<"Imported", 2>>
    /\ s[1].channel = channels.imports

\* Every send went to the destination of the event's own category.
RoutedByCategory ==
    \A i \in 1..Len(sent) :
        sent[i].channel =
            (CASE sent[i].event.category = "MediaGrab" -> channels.grabs
               [] sent[i].event.category = "MediaImport" -> channels.imports
               [] sent[i].event.category = "ServerAlert" -> channels.alerts)

\* C3: every event is sent to the destination of its category, and in the
\* end-to-end scenario an engine that has started running sends exactly one
\* notification in total: the Import event of record 2, to imports.
C3_EndToEnd ==
    /\ []RoutedByCategory
    /\ [](EndToEndScenario => (sent = <<>> \/ EndToEndSent(sent)))
    /\ (EndToEndScenario /\ enginePc = "polling") ~> EndToEndSent(sent)

(***************************************************************************)
(* Properties of the pending map of RequestPlugin                          *)
(***************************************************************************)
\* A handle_add call that obtained the stored items and has not returned.
HoldsItems(t) ==
    /\ tasks[t].kind = "add"
    /\ tasks[t].pc \in {"rootfolder", "qualityprofile", "lookup", "post", "respond",
                        "remove"}

\* C1: of two handle_add calls in flight on the same id, at most one obtains
\* the stored items and goes on with the add; the other finds nothing.
C1_ExactlyOnceConsumption ==
    \A t1, t2 \in Tasks :
        (t1 # t2 /\ tasks[t1].id = tasks[t2].id) =>
            ~(HoldsItems(t1) /\ HoldsItems(t2))

\* The calls of handle_select and handle_add that have looked their id up.
LookedUp == {t \in Tasks : tasks[t].kind \in {"select", "add"}
                           /\ tasks[t].found # "unknown"}

\* C4: a request inserted at t0 is found by every lookup made before t0 + TTL
\* (unless handle_add has removed it), and by no lookup made at or after
\* t0 + TTL, whichever other calls were made in between.
C4_SelectionTTL ==
    \A t \in LookedUp :
        LET h == history[tasks[t].id]
        IN  h.inserted # None =>
              /\ (tasks[t].lookupAt < h.inserted[1] + TTL /\ ~h.removed)
                    => tasks[t].found = "yes"
              /\ tasks[t].lookupAt >= h.inserted[1] + TTL
                    => tasks[t].found = "no"

(***************************************************************************)
(* Properties of the plugin walk of Bot::interaction_create                *)
(***************************************************************************)
Declined == [ok |-> TRUE, handled |-> FALSE]

Claimed == [ok |-> TRUE, handled |-> TRUE]

\* The handle_command calls made so far went to plugins 1, 2, .. in that
\* order, one call each, and all but the last one declined.
InRegistrationOrder ==
    \A i \in 1..Len(called) :
        /\ called[i].plugin = i
        /\ i < Len(called) => called[i].outcome = Declined

\* How many of the responses the router itself sent: all but the ones of the
\* plugins that claimed the command.
RouterSent ==
    Len(responses) - Cardinality({i \in 1..Len(called) : called[i].outcome = Claimed})

\* C11: the owner's command goes to the plugins in registration order, one
\* call each; the first plugin that claims it ends the walk: it is the last
\* one called, it alone responds, and no plugin after it is called.
C11_OrderedFallback ==
    /\ InRegistrationOrder
    /\ \A i \in 1..Len(called) :
          called[i].outcome = Claimed =>
              /\ i = Len(called)
              /\ routerPc = "done"
              /\ responses = <<PluginResponse(i)>>

\* C11 witness: of three plugins the second claimed the command; the first
\* was called before it and the third was not called.
C11_Witness ==
    /\ NumPlugins >= 3
    /\ routerPc = "done"
    /\ Len(called) = 2
    /\ called[1] = [plugin |-> 1, outcome |-> Declined]
    /\ called[2] = [plugin |-> 2, outcome |-> Claimed]
    /\ responses = <<PluginResponse(2)>>

\* C12: a plugin that returns an error ends the walk: it is the last one
\* called, and the one response of the dispatch is the router's, carrying
\* the user message of that error; the dispatch ends as every other does.
C12_ErrorStopsWalk ==
    \A i \in 1..Len(called) :
        ~called[i].outcome.ok =>
            /\ i = Len(called)
            /\ routerPc = "done"
            /\ responses = <<RouterResponse(UserMessage(called[i].outcome.error))>>

\* C12 witness: the first plugin declined, the second failed with an
\* ApiError, and the dispatch ended with the third plugin not called.
C12_Witness ==
    /\ NumPlugins >= 3
    /\ routerPc = "done"
    /\ Len(called) = 2
    /\ called[1].outcome = Declined
    /\ ~called[2].outcome.ok
    /\ called[2].outcome.error.variant = "ApiError"
    /\ Len(responses) = 1
    /\ responses[1].by = "router"

\* C13: when every plugin declines the owner's command, each plugin was
\* called once, in registration order, and the dispatch ends with the fixed
\* "Unknown command." of the router; and whatever the outcome of a dispatch,
\* the router itself sends at most one response.
C13_UnknownCommand ==
    /\ RouterSent <= 1
    /\ (/\ routerPc = "done"
        /\ interaction.kind = "Command"
        /\ IsOwner(interaction.user)
        /\ \A i \in 1..Len(called) : called[i].outcome = Declined)
          => /\ Len(called) = NumPlugins
             /\ InRegistrationOrder
             /\ responses = <<RouterResponse(UnknownText)>>

\* C13 witness: all the plugins declined and the router answered.
C13_Witness ==
    /\ routerPc = "done"
    /\ Len(called) = NumPlugins
    /\ \A i \in 1..Len(called) : called[i] = [plugin |-> i, outcome |-> Declined]
    /\ responses = <<RouterResponse(UnknownText)>>

\* C14: the message shown for a plugin error is the same for every detail
\* text of the error's variant, both as PluginError::user_message computes
\* it and as the router sends it.
C14_MessageByCategoryOnly ==
    /\ \A e1, e2 \in PluginErrors :
          e1.variant = e2.variant => UserMessage(e1) = UserMessage(e2)
    /\ \A i \in 1..Len(called) :
          ~called[i].outcome.ok =>
              \A d \in ErrorDetails :
                  responses = <<RouterResponse(UserMessage(
                                   [variant |-> called[i].outcome.error.variant,
                                    detail |-> d]))>>

\* C14 witness: a plugin failed with Other("HTTP 500") and the router sent
\* the message that Other("timeout") gives.
C14_Witness ==
    /\ routerPc = "done"
    /\ called # <<>>
    /\ ~called[Len(called)].outcome.ok
    /\ called[Len(called)].outcome.error = [variant |-> "Other", detail |-> "HTTP 500"]
    /\ responses = <<RouterResponse(UserMessage([variant |-> "Other",
                                                 detail |-> "timeout"]))>>

\* The calls of handle_select and handle_add that ended on a miss of their id.
Missed == {t \in LookedUp : tasks[t].found = "no" /\ tasks[t].pc = "done"}

\* C15: a call of handle_select or handle_add that does not find its id ends
\* with the end user being told that the request has expired and the search
\* must be made again, not with a general failure message.
C15_MissShownAsExpired ==
    \A t \in Missed :
        /\ tasks[t].result = "Expired"
        /\ UserSees(t) = ExpiredText

\* The ids that left the map: removed by a handle_add call that ran to its
\* end, or swept away by cleanup_expired.
Gone(id) == history[id].removed \/ history[id].swept

\* C16: an id that left the map is never in it again, and every lookup of
\* handle_select or handle_add made after it left misses.
C16_RemovedNeverResolves ==
    /\ [](\A id \in Tasks : Gone(id) => id \notin DOMAIN pending)
    /\ [][\A t \in Tasks :
             (tasks[t].pc = "read" /\ tasks'[t].pc # "read" /\ Gone(tasks[t].id))
                 => (tasks'[t].found = "no" /\ tasks'[t].result = "Expired")]_vars

\* C16 witness: a handle_add call removed the id, and a lookup made
\* afterwards missed it.
C16_Witness ==
    \E t \in Missed :
        /\ history[tasks[t].id].removed
        /\ tasks[t].result = "Expired"
        /\ tasks[t].id \notin DOMAIN pending

\* Every entry of the map is as handle_search inserted it.
EntriesAsInserted ==
    \A id \in DOMAIN pending :
        /\ history[id].inserted # None
        /\ pending[id] = [results |-> ItemsOf(id),
                          created_at |-> history[id].inserted[1]]

\* C17: no step of a handle_select call changes the map, so the entry it
\* read is still there, as it was inserted, for every later lookup.
C17_SelectReadsOnly ==
    /\ []EntriesAsInserted
    /\ [][\A t \in Tasks :
             (tasks'[t].kind = "select" /\ tasks'[t] # tasks[t])
                 => pending' = pending]_vars

\* C17 witness: a handle_select call found the entry and answered; at a
\* later time a handle_add call found the same entry, which is unchanged.
C17_Witness ==
    \E t1, t2 \in Tasks :
        /\ tasks[t1].kind = "select" /\ tasks[t1].found = "yes"
        /\ tasks[t1].pc = "done" /\ tasks[t1].result = "Ok"
        /\ tasks[t2].kind = "add" /\ tasks[t2].found = "yes"
        /\ tasks[t2].id = tasks[t1].id
        /\ tasks[t2].lookupAt > tasks[t1].lookupAt
        /\ tasks[t1].id \in DOMAIN pending
        /\ pending[tasks[t1].id].results = ItemsOf(tasks[t1].id)

(***************************************************************************)
(* Properties of the engine under failing fetches                          *)
(***************************************************************************)
\* The engine is about to poll a poller whose fetch is going to fail.
FetchAboutToFail ==
    /\ enginePc = "polling"
    /\ pollIdx \in 1..Len(pollers)
    /\ ~feed[pollers[pollIdx].service][feedPos[pollers[pollIdx].service]].ok

\* The poll with the failing fetch gives no event: nothing is queued or sent
\* and the loop moves to the next poller.
FailedFetchIsSilent ==
    (FetchAboutToFail /\ senderAlive' = senderAlive)
        => /\ outbox' = <<>>
           /\ sent' = sent
           /\ enginePc' = "polling"
           /\ pollIdx' = pollIdx + 1

\* C18: a poller whose fetch fails gives no event and stops nothing: the
\* tick is carried to its end, with every later poller polled and its events
\* sent, and the engine then starts its next tick.
C18_FailureStopsNothing ==
    /\ [][FailedFetchIsSilent]_vars
    /\ [](enginePc = "waiting" => (outbox = <<>> /\ pollIdx = Len(pollers) + 1))
    /\ \A n \in 1..MaxTicks :
          (FetchAboutToFail /\ tickNo = n) ~> (enginePc = "waiting" /\ tickNo = n)
    /\ \A n \in 1..(MaxTicks - 1) :
          (FetchAboutToFail /\ tickNo = n) ~> (tickNo = n + 1)

(***************************************************************************)
(* Properties of the pollers under failing fetches and at their baseline   *)
(***************************************************************************)
\* The step is a poll() call of the history poller, or of the Unraid poller.
HistoryStep == calls' # "none" /\ unraidCalls' = "none"

UnraidStep == unraidCalls' # "none"

\* The alerts of `alerts` with the title `title`.
AlertsTitled(alerts, title) == {i \in 1..Len(alerts) : alerts[i].title = title}

\* A failed fetch leaves the poller's fields as they were and gives no event.
FailureKeepsState ==
    /\ (HistoryStep /\ ~lastResult'.ok)
          => (arrPoller' = arrPoller /\ lastEvents' = <<>>)
    /\ (UnraidStep /\ ~lastData'.ok)
          => (unraidPoller' = unraidPoller /\ lastAlerts' = <<>>)

\* The first fetch that succeeds is the baseline, also after failed ones.
BaselineAfterFailures ==
    /\ (HistoryStep /\ calls # "none" /\ arrPoller.first_poll /\ lastResult'.ok)
          => /\ lastEvents' = <<>>
             /\ ~arrPoller'.first_poll
             /\ IdsOf(lastResult'.records) \subseteq arrPoller'.seen_ids
    /\ (UnraidStep /\ unraidCalls # "none" /\ unraidPoller.first_poll /\ lastData'.ok)
          => /\ lastAlerts' = <<>>
             /\ ~unraidPoller'.first_poll
             /\ unraidPoller'.last_array_state = Some(lastData'.data.array)

\* The first fetch that succeeds after failed ones is compared with what was
\* remembered before them.
ChangeSeenAcrossFailures ==
    /\ (HistoryStep /\ calls # "none" /\ ~lastResult.ok /\ ~arrPoller.first_poll
          /\ lastResult'.ok)
          => EventIds(lastEvents') =
                {lastResult'.records[i].id :
                    i \in NewRecognised(arrPoller.seen_ids, lastResult'.records)}
    /\ (UnraidStep /\ unraidCalls # "none" /\ ~lastData.ok /\ ~unraidPoller.first_poll
          /\ lastData'.ok)
          => /\ (unraidPoller.last_array_state # Some(lastData'.data.array))
                   <=> (AlertsTitled(lastAlerts', "Array State Changed") # {})
             /\ \A i \in 1..Len(lastData'.data.containers) :
                   LET c == lastData'.data.containers[i]
                       name == DisplayName(c)
                       last == unraidPoller.last_container_states
                   IN  (name \in DOMAIN last /\ last[name] = "RUNNING"
                          /\ c.state # "RUNNING")
                         <=> (\E j \in AlertsTitled(lastAlerts', "Container Down") :
                                 lastAlerts'[j].body[1] = name)

\* C19: a poll() call whose fetch fails leaves what the poller remembers
\* unchanged and gives no event, for both kinds of poller; so the first fetch
\* that succeeds is the baseline even after failed ones, and a change that
\* came about across failed polls is reported by the next poll that succeeds.
C19_FailedFetchKeepsState ==
    /\ [][FailureKeepsState]_vars
    /\ [][BaselineAfterFailures]_vars
    /\ [][ChangeSeenAcrossFailures]_vars

\* C19 witness: the history poller took its baseline, then a fetch failed and
\* left its fields as they were, and the fetch after that reported a new record.
C19_Witness ==
    /\ calls = "many"
    /\ failedBefore
    /\ lastResult.ok
    /\ ~prevPoller.first_poll
    /\ prevPoller.seen_ids # {}
    /\ lastEvents # <<>>
    /\ EventIds(lastEvents) \cap prevPoller.seen_ids = {}

\* C20: the first poll() call of the Unraid poller whose query succeeds gives
\* no event, whatever the array state, the containers and the temperatures
\* are, and remembers the array state and every container's state.
C20_FirstSnapshotSilent ==
    [][(UnraidStep /\ unraidPoller.first_poll /\ lastData'.ok)
          => /\ lastAlerts' = <<>>
             /\ ~unraidPoller'.first_poll
             /\ unraidPoller'.last_array_state = Some(lastData'.data.array)
             /\ DOMAIN unraidPoller'.last_container_states =
                   {DisplayName(lastData'.data.containers[i]) :
                       i \in 1..Len(lastData'.data.containers)}
             /\ \A i \in 1..Len(lastData'.data.containers) :
                   unraidPoller'.last_container_states[
                       DisplayName(lastData'.data.containers[i])]
                     = lastData'.data.containers[i].state]_vars

\* C20 witness: the first snapshot held a disk above the threshold and a
\* container that is not running; no event came of it and it was remembered.
C20_Witness ==
    /\ unraidCalls = "one"
    /\ lastData.ok
    /\ \E i \in 1..Len(lastData.data.disks) :
          lastData.data.disks[i].temperature = Some(TempThreshold + 1)
    /\ \E i \in 1..Len(lastData.data.containers) :
          lastData.data.containers[i].state = "EXITED"
    /\ lastAlerts = <<>>
    /\ ~unraidPoller.first_poll
    /\ unraidPoller.last_array_state = Some(lastData.data.array)
    /\ unraidPoller.last_container_states # <<>>

(***************************************************************************)
(* Properties of the comparisons of UnraidPoller::poll                     *)
(***************************************************************************)
\* The step is a poll() call of the Unraid poller whose query succeeds, made
\* after the baseline was taken.
ComparingPoll == UnraidStep /\ ~unraidPoller.first_poll /\ lastData'.ok

\* The alerts of `alerts` with the title `title` that are about `name`.
AlertsAbout(alerts, title, name) ==
    {i \in AlertsTitled(alerts, title) : alerts[i].body[1] = name}

OneIf(condition) == IF condition THEN 1 ELSE 0

\* The temperature of a disk is at or above the threshold of poller p.
Hot(disk, p) == disk.temperature # None /\ disk.temperature[1] >= p.temp_threshold

\* C21: a comparing poll gives one "Container Down" alert for each container
\* that was remembered as RUNNING and is listed in another state, and none
\* for any other container (so none for one that stays as it was remembered);
\* it then remembers the listed states.
C21_ContainerAlertsOnEdge ==
    [][ComparingPoll =>
          LET last == unraidPoller.last_container_states
              cs == lastData'.data.containers
          IN  /\ \A k \in 1..NumContainers :
                    Cardinality(AlertsAbout(lastAlerts', "Container Down",
                                            ContainerName(k)))
                      = OneIf(/\ ContainerName(k) \in DOMAIN last
                              /\ last[ContainerName(k)] = "RUNNING"
                              /\ \E i \in 1..Len(cs) :
                                    /\ DisplayName(cs[i]) = ContainerName(k)
                                    /\ cs[i].state # "RUNNING")
              /\ \A i \in 1..Len(cs) :
                    /\ DisplayName(cs[i]) \in
                          DOMAIN unraidPoller'.last_container_states
                    /\ unraidPoller'.last_container_states[DisplayName(cs[i])]
                          = cs[i].state]_vars

\* C21 witness: the poll before reported a container as down; the last poll
\* found the container still not running and reported nothing about it.
C21_Witness ==
    /\ "Container Down" \in alertedBefore
    /\ lastData.ok
    /\ \E i \in 1..Len(lastData.data.containers) :
          /\ lastData.data.containers[i].state = "EXITED"
          /\ unraidPoller.last_container_states[
                 DisplayName(lastData.data.containers[i])] = "EXITED"
    /\ AlertsTitled(lastAlerts, "Container Down") = {}

\* The temperature warnings of a successful poll are one for each disk whose
\* temperature is at or above the threshold, and none for the other disks.
WarningPerHotDisk ==
    \A i \in 1..Len(lastData'.data.disks) :
        Cardinality(AlertsAbout(lastAlerts', "Disk Temperature Warning",
                                lastData'.data.disks[i].name))
          = OneIf(Hot(lastData'.data.disks[i], unraidPoller))

\* C22 as stated: every successful poll gives one warning for each disk at
\* or above the threshold and none for the others.
C22_WarningOnEveryPoll ==
    [][(UnraidStep /\ lastData'.ok) => WarningPerHotDisk]_vars

\* C22 as amended: every successful poll after the baseline gives one
\* warning for each disk at or above the threshold, whether or not the disk
\* was already there at the poll before, and none for the others.
C22_WarningOnEveryComparingPoll ==
    [][ComparingPoll => WarningPerHotDisk]_vars

\* C22 witness: the poll before gave a temperature warning, and the last
\* poll, with a disk exactly at the threshold, gave one again.
C22_Witness ==
    /\ "Disk Temperature Warning" \in alertedBefore
    /\ lastData.ok
    /\ \E i \in 1..Len(lastData.data.disks) :
          lastData.data.disks[i].temperature = Some(TempThreshold)
    /\ AlertsTitled(lastAlerts, "Disk Temperature Warning") # {}

\* C23: a comparing poll gives one "Array State Changed" alert, from the
\* remembered state to the current one, when the two differ and none when
\* they are equal; it then remembers the current state.
C23_ArrayAlertOnChange ==
    [][ComparingPoll =>
          LET changes == AlertsTitled(lastAlerts', "Array State Changed")
              current == lastData'.data.array
          IN  /\ Cardinality(changes)
                    = OneIf(unraidPoller.last_array_state # Some(current))
              /\ \A i \in changes :
                    lastAlerts'[i].body = <<unraidPoller.last_array_state[1], current>>
              /\ unraidPoller'.last_array_state = Some(current)]_vars

\* C23 witness: the array was remembered as STARTED and found STOPPED; the
\* change was reported and STOPPED is remembered.
C23_Witness ==
    /\ unraidCalls = "many"
    /\ lastData.ok
    /\ \E i \in AlertsTitled(lastAlerts, "Array State Changed") :
          lastAlerts[i].body = <<"STARTED", "STOPPED">>
    /\ unraidPoller.last_array_state = Some("STOPPED")

(***************************************************************************)
(* Properties of resolve_channels and of the start of the engine           *)
(***************************************************************************)
\* The step is a resolve_channels call that returned Ok.
ResolvedOk ==
    /\ Len(resolved') = Len(resolved) + 1
    /\ resolved'[Len(resolved')].ok

\* The channels the step created.
Created == guild' \ guild

\* The categories of g called Notifications, whatever the case of the letters.
NotificationsCategories(g) ==
    {ch \in g : ch.kind = "Category" /\ LowerAscii(ch.name) = "notifications"}

\* An existing Notifications category is reused; otherwise one is created.
CategoryFoundOrCreated ==
    IF NotificationsCategories(guild) # {}
    THEN {ch \in Created : ch.kind = "Category"} = {}
    ELSE /\ Cardinality({ch \in Created : ch.kind = "Category"}) = 1
         /\ \A ch \in Created : ch.kind = "Category" => ch.name = "Notifications"

\* The destination of one category: the override; else a channel of the
\* name that was under the category cat; else the one channel created there.
DestinationFoundOrCreated(cat, name, override_id, dest) ==
    LET old == {ch \in guild : ch.name = name /\ ch.parent = Some(cat.id)}
        new == {ch \in Created : ch.name = name}
    IN  IF override_id # None
        THEN dest = override_id /\ new = {}
        ELSE IF old # {}
             THEN dest \in {Some(ch.id) : ch \in old} /\ new = {}
             ELSE /\ Cardinality(new) = 1
                  /\ \A ch \in new : /\ ch.kind = "Text"
                                     /\ ch.parent = Some(cat.id)
                                     /\ dest = Some(ch.id)

\* The three destinations are found or created under one Notifications
\* category, and nothing else is created.
DestinationsFoundOrCreated ==
    LET map == resolved'[Len(resolved')].channels
    IN  /\ \E cat \in NotificationsCategories(guild') :
              /\ DestinationFoundOrCreated(cat, "media-grabs",
                                           starter.grabs_channel_id, map.grabs)
              /\ DestinationFoundOrCreated(cat, "media-imports",
                                           starter.imports_channel_id, map.imports)
              /\ DestinationFoundOrCreated(cat, "server-alerts",
                                           starter.alerts_channel_id, map.alerts)
        /\ \A ch \in Created :
              \/ ch.kind = "Category"
              \/ ch.name \in {"media-grabs", "media-imports", "server-alerts"}

\* A resolve_channels call that follows a successful one creates nothing and
\* returns the destinations the earlier call returned.
SecondRunSame ==
    (resolved # <<>> /\ resolved[Len(resolved)].ok) =>
        /\ guild' = guild
        /\ resolved'[Len(resolved')].channels = resolved[Len(resolved)].channels

\* No two categories are called Notifications, and no two channels under
\* one category have the same name.
NoDuplicates(g) ==
    /\ Cardinality(NotificationsCategories(g)) <= 1
    /\ \A a, b \in g : (a.name = b.name /\ a.parent = b.parent /\ a.parent # None)
                          => a = b

\* The find-or-create part alone.
FindOrCreateHolds == [][ResolvedOk => (CategoryFoundOrCreated /\ DestinationsFoundOrCreated)]_vars

\* The second run on a guild without duplicates.
SecondRunSameWithoutDuplicates == [][(ResolvedOk /\ NoDuplicates(guild)) => SecondRunSame]_vars

\* C30: every successful resolve_channels call reuses or creates the
\* Notifications category, uses each override or reuses or creates the
\* channel of each category under it, and a call that follows a successful
\* one creates nothing and returns the same destinations.
C30_ResolveFindOrCreate ==
    [][ResolvedOk => /\ CategoryFoundOrCreated
                     /\ DestinationsFoundOrCreated
                     /\ SecondRunSame]_vars

\* The step is a poll() call of the engine.
EnginePolls == Len(polled') = Len(polled) + 1

\* C24: once the shutdown channel has fired the engine makes no poll() call,
\* and from its interval wait it goes nowhere but to Stopped.
C24_NoPollAfterShutdown ==
    [][/\ EnginePolls => ~ChangedReady
       /\ (enginePc = "waiting" /\ ChangedReady /\ enginePc' # enginePc)
             => enginePc' = "stopped"]_vars

\* The spawned task has not returned.
EngineLive == enginePc \in {"starting", "polling", "sending", "waiting"}

\* The spawned task has returned.
EngineOver == enginePc \in {"stopped", "aborted"}

\* A shutdown channel that has fired is seen: the task returns.
SignalSeen == ChangedReady ~> EngineOver

\* After run() has returned nothing is polled and nothing is sent.
StoppedIsFinal ==
    [][enginePc = "stopped" => UNCHANGED <<enginePc, polled, sent, pollers>>]_vars

\* C25: while the engine lives the host holds the Sender with which to
\* cancel it; a cancellation, whenever it comes, leads to Stopped; and a
\* Stopped engine polls and sends nothing.
C25_CancellationNotLost ==
    /\ [](EngineLive => senderAlive)
    /\ SignalSeen
    /\ StoppedIsFinal

\* The services that have a poller, in the order of registration.
ConfiguredServices ==
    SelectSeq(<<"Sonarr", "Radarr", "Unraid">>,
              LAMBDA s : \/ s = "Sonarr" /\ starter.sonarr
                         \/ s = "Radarr" /\ starter.radarr
                         \/ s = "Unraid" /\ starter.unraid)

RECURSIVE EventsOf(_)
\* The events of a sequence of poll() calls, in the order they were returned.
EventsOf(polls) ==
    IF polls = <<>> THEN <<>> ELSE Head(polls).events \o EventsOf(Tail(polls))

\* Every event a poll() call returned is sent once, in the order returned,
\* or is still waiting to be sent; nothing else is sent.
SentAsReturned ==
    [i \in 1..Len(sent) |-> sent[i].event] \o outbox = EventsOf(polled)

\* C26: the poll() calls go round the configured services in the order
\* Sonarr, Radarr, Unraid, tick after tick, each tick's calls after all
\* those of the tick before; a call is made only when the events of the
\* call before are all sent; and the events are sent in the order returned.
C26_PolledAndSentInOrder ==
    /\ \A i \in 1..Len(polled) :
          /\ polled[i].service =
                ConfiguredServices[((i - 1) % Len(ConfiguredServices)) + 1]
          /\ polled[i].tick = ((i - 1) \div Len(ConfiguredServices)) + 1
    /\ SentAsReturned

\* C26 witness: three pollers, the second tick under way, and events of two
\* different pollers sent.
C26_Witness ==
    /\ Len(ConfiguredServices) = 3
    /\ Len(polled) >= 5
    /\ \E i, j \in 1..Len(sent) :
          i < j /\ sent[i].event.category # sent[j].event.category

\* A send_message call has just failed in tick n.
DeliveryFailed(n) ==
    /\ tickNo = n
    /\ enginePc \in {"polling", "sending"}
    /\ sent # <<>>
    /\ ~sent[Len(sent)].ok

\* Every configured poller was polled in tick n.
AllPolled(n) ==
    Cardinality({i \in 1..Len(polled) : polled[i].tick = n}) = Len(pollers)

\* After a failed delivery the tick is carried to its end.
FailedDeliveryKeepsTick ==
    \A n \in 1..MaxTicks :
        DeliveryFailed(n) ~>
            (enginePc = "waiting" /\ tickNo = n /\ outbox = <<>> /\ AllPolled(n))

\* C27: after a failed delivery the remaining events and pollers of the tick
\* are processed, the engine goes on to its next tick, and every event,
\* delivered or not, is sent once only.
C27_DeliveryFailureStopsNothing ==
    /\ []SentAsReturned
    /\ FailedDeliveryKeepsTick
    /\ \A n \in 1..(MaxTicks - 1) : DeliveryFailed(n) ~> (tickNo = n + 1)

\* The step is the end of startup: the spawned task enters run() or returns.
StartupEnds == enginePc = "starting" /\ enginePc' # "starting"

\* The step is a startup without destinations: no fallback, and no guild id
\* or a resolve_channels call that returned Err.
NoDestinations ==
    /\ StartupEnds
    /\ starter.fallback_channel_id = None
    /\ \/ starter.guild_id = None
       \/ resolved' # <<>> /\ ~resolved'[Len(resolved')].ok

\* C28: a startup without destinations aborts, and an aborted engine stays
\* aborted, with no poller built or polled and nothing sent.
C28_NoDestinationsAborts ==
    [][/\ NoDestinations => enginePc' = "aborted"
       /\ enginePc = "aborted" => enginePc' = "aborted"
       /\ enginePc' = "aborted" =>
             /\ pollers' = <<>>
             /\ polled' = <<>>
             /\ sent' = <<>>
             /\ tickNo' = 0]_vars

\* C28 witness: resolve_channels failed after it had created the category,
\* and the engine is aborted.
C28_Witness ==
    /\ enginePc = "aborted"
    /\ resolved # <<>>
    /\ ~resolved[1].ok
    /\ guild # {}
    /\ ~senderAlive

\* C29: with a fallback channel the startup gives the fallback as all three
\* destinations and enters run() without a resolve_channels call; the guild
\* is left as it was.
C29_FallbackAliasesAll ==
    [][(StartupEnds /\ starter.fallback_channel_id # None)
          => /\ channels'.grabs = starter.fallback_channel_id
             /\ channels'.imports = starter.fallback_channel_id
             /\ channels'.alerts = starter.fallback_channel_id
             /\ enginePc' = "polling"
             /\ resolved' = <<>>
             /\ guild' = guild]_vars

\* C29 witness: a fallback, a guild id and an override are all configured,
\* the guild has no channel, and the engine runs with the fallback as the
\* grabs destination.
C29_Witness ==
    /\ starter.fallback_channel_id # None
    /\ starter.guild_id # None
    /\ starter.grabs_channel_id # None
    /\ guild = {}
    /\ resolved = <<>>
    /\ enginePc = "waiting"
    /\ channels.grabs = starter.fallback_channel_id
    /\ \E i \in 1..Len(sent) : sent[i].channel = starter.fallback_channel_id

(***************************************************************************)
(* Properties of the engine against a service that does not answer         *)
(***************************************************************************)
\* The engine is about to poll a poller whose request gets no answer.
AboutToGoUnanswered ==
    /\ enginePc = "polling"
    /\ pollIdx \in 1..Len(pollers)
    /\ ~Answered(feed[pollers[pollIdx].service][feedPos[pollers[pollIdx].service]])

\* C31: every poll() call returns, an unanswered one with no event, so every
\* tick that has begun reaches its end.
C31_EveryTickCompletes ==
    /\ \A n \in 1..MaxTicks :
          (enginePc = "polling" /\ tickNo = n) ~> (enginePc = "waiting" /\ tickNo = n)
    /\ \A k \in 1..3 :
          (AboutToGoUnanswered /\ pollIdx = k) ~> (pollIdx = k + 1 /\ outbox = <<>>)

(***************************************************************************)
(* Properties of the lock of the pending map and of the follow-up steps    *)
(***************************************************************************)
\* The handle_search call t is first in line for the write guard.
SearchWaitsToWrite(t) ==
    /\ tasks[t].kind = "search"
    /\ tasks[t].pc \in {"cleanup", "insert"}
    /\ lockQueue # <<>>
    /\ Head(lockQueue).task = t

\* C32: a handle_search call that is first in line for the write guard is
\* not held up by a handle_select or handle_add call on another id that is
\* waiting for a network call.
C32_WriteNotBlockedByOtherId ==
    \A t \in Tasks :
        SearchWaitsToWrite(t) => \A r \in lockReaders : tasks[r].id = tasks[t].id

\* In this step the call t does its `pending.get(id)`.
LookupStep(t) ==
    /\ tasks[t].kind \in {"select", "add"}
    /\ tasks[t].pc = "read"
    /\ tasks'[t].pc # "read"

\* In this step the call t does its `pending.insert(..)`.
InsertStep(t) == tasks[t].pc = "insert" /\ tasks'[t].pc # "insert"

\* C33: when a handler gets, takes or puts an entry, the map it works on
\* holds no entry whose age has reached the time to live.
C33_SweptBeforeEveryOperation ==
    [][\A t \in Tasks :
          (LookupStep(t) \/ InsertStep(t))
             => \A id \in DOMAIN pending : Elapsed(pending[id].created_at) < TTL]_vars

\* C34: a component interaction of the owner that the router has dealt with
\* was offered to a plugin.
C34_FollowUpOffered ==
    (/\ routerPc = "done"
     /\ interaction.kind = "Component"
     /\ IsOwner(interaction.user)) => called # <<>>

\* In this step the handle_add call t returns an error.
AddFails(t) ==
    /\ tasks[t].kind = "add"
    /\ tasks[t].pc # "done"
    /\ tasks'[t].pc = "done"
    /\ tasks'[t].result # "Ok"

\* C36: a handle_add call that returns an error leaves the map as it is, and
\* a handle_add call changes the map only in its last step, after its POST
\* and its response both succeeded.
C36_FailedAddKeepsEntry ==
    [][\A t \in Tasks :
          /\ AddFails(t) => pending' = pending
          /\ (tasks[t].kind = "add" /\ tasks'[t] # tasks[t] /\ pending' # pending)
                => /\ tasks[t].pc = "remove"
                   /\ \E i \in 1..Len(added) : added[i].task = t
                   /\ pending' = MapRemove(pending, tasks[t].id)]_vars

\* C36 witness: a handle_add call failed at its POST, the entry is in the map
\* as it was inserted, and a later handle_add call on the same id has found
\* it and added it.
C36_Witness ==
    \E t1, t2 \in Tasks :
        /\ t1 < t2
        /\ tasks[t1].kind = "add" /\ tasks[t1].pc = "done"
        /\ tasks[t1].result = "ApiError"
        /\ tasks[t2].kind = "add" /\ tasks[t2].id = tasks[t1].id
        /\ tasks[t2].pc = "respond"
        /\ \E i \in 1..Len(added) : added[i].task = t2
        /\ tasks[t1].id \in DOMAIN pending
        /\ pending[tasks[t1].id].results = ItemsOf(tasks[t1].id)

\* No call waits for the write guard while it holds a read guard.
NoUpgrade ==
    \A i \in 1..Len(lockQueue) :
        lockQueue[i].mode = "write" => lockQueue[i].task \notin lockReaders

\* C37: no handler asks for the write guard while it holds a read guard, and
\* every handler call that was made returns.
C37_NoDeadlock ==
    /\ []NoUpgrade
    /\ \A t \in Tasks : (tasks[t].kind # "none") ~> (tasks[t].pc = "done")

\* C37 witness: a handle_add call has dropped its read guard and waits for
\* the write guard while another call holds a read guard.
C37_Witness ==
    /\ lockQueue # <<>>
    /\ lockQueue[1].mode = "write"
    /\ tasks[lockQueue[1].task].kind = "add"
    /\ lockReaders # {}

(***************************************************************************)
(* Properties of the stored container states of UnraidPoller               *)
(***************************************************************************)
\* The names the fetched snapshot lists.
ListedNames(data) == {DisplayName(data.containers[i]) : i \in 1..Len(data.containers)}

\* C35: after a comparing poll the stored container states are exactly those
\* of the fetched list; a stored container that the list lacks gives no
\* alert, whatever its stored state, and a listed container that was not
\* stored gives none either, whatever its listed state.
C35_StoredStatesAreTheFetched ==
    [][ComparingPoll =>
          LET cs == lastData'.data.containers
              stored == unraidPoller.last_container_states
          IN  /\ DOMAIN unraidPoller'.last_container_states = ListedNames(lastData'.data)
              /\ \A i \in 1..Len(cs) :
                    unraidPoller'.last_container_states[DisplayName(cs[i])] = cs[i].state
              /\ \A n \in DOMAIN stored \ ListedNames(lastData'.data) :
                    AlertsAbout(lastAlerts', "Container Down", n) = {}
              /\ \A n \in ListedNames(lastData'.data) \ DOMAIN stored :
                    AlertsAbout(lastAlerts', "Container Down", n) = {}]_vars

\* C35 witness: a container stored as RUNNING was missing from one fetch and
\* listed as not running by the next, and that poll reported nothing about
\* it and stored its state.
C35_Witness ==
    /\ lastData.ok
    /\ \E n \in lostTrack.reappeared :
          /\ AlertsAbout(lastAlerts, "Container Down", n) = {}
          /\ n \in DOMAIN unraidPoller.last_container_states
          /\ unraidPoller.last_container_states[n] # "RUNNING"

(***************************************************************************)
(* Properties of ClaudePlugin's conversations                              *)
(***************************************************************************)
\* The channels with a conversation are those whose last conversation
\* command was a start.
EntryIffStarted ==
    \A c \in Channels : (c \in DOMAIN conversations) <=> (lastOp[c] = "start")

\* A step of some `ask` call.
AskStep ==
    \E a \in 1 .. NumAsks :
        \/ \E ch \in Channels : AskBegin(a, ch)
        \/ \E ok \in BOOLEAN : AskBackend(a, ok)
        \/ AskEnd(a)

\* The channel the stepping `ask` call is about has no conversation.
AskStepWithoutConversation ==
    \E a \in 1 .. NumAsks :
        \/ \E ch \in Channels : AskBegin(a, ch) /\ ch \notin DOMAIN conversations
        \/ \E ok \in BOOLEAN : AskBackend(a, ok)
        \/ AskEnd(a) /\ asks[a].channel \notin DOMAIN conversations

AskKeepsEntries ==
    /\ AskStep => DOMAIN conversations' = DOMAIN conversations
    /\ AskStepWithoutConversation => conversations' = conversations

\* C38: a channel has a conversation entry exactly when a conversation start
\* for it was processed after its last conversation end; no step of an ask
\* creates or deletes an entry, and an ask step for a channel without a
\* conversation leaves the whole map as it is, also when the conversation was
\* ended while the backend call was in flight.
C38_EntryIffStartedAfterEnd == []EntryIffStarted /\ [][AskKeepsEntries]_vars

\* An ask was sent with the history of a running conversation and has come
\* back with an answer, the conversation was ended in between, and the channel
\* has no entry.
C38_Witness ==
    \E a \in 1 .. NumAsks :
        /\ asks[a].pc = "done"
        /\ asks[a].result = "response"
        /\ Len(asks[a].messages) > 1
        /\ lastOp[asks[a].channel] = "end"
        /\ asks[a].channel \notin DOMAIN conversations

(***************************************************************************)
(* Properties of QbitClient                                                *)
(***************************************************************************)
\* A request never logs in again or retries more than once, does so only
\* after a 403, and a finished request that saw a 403 has logged in again
\* once and, unless that login failed, retried once.
OneReloginOneRetry ==
    \A r \in 1 .. NumRequests :
        /\ requests[r].relogins <= 1
        /\ requests[r].retries <= 1
        /\ requests[r].relogins + requests[r].retries > 0 => requests[r].forbidden
        /\ (requests[r].pc = "done" /\ requests[r].forbidden) =>
               /\ requests[r].relogins = 1
               /\ requests[r].retries = IF requests[r].result = "LoginFailed" THEN 0 ELSE 1

\* The request that starts goes to login exactly when the flag is false.
LoginFirstOnlyWhenFalse ==
    \A r \in 1 .. NumRequests :
        Ensure(r) => (requests'[r].pc = "login" <=> ~logged_in)

\* The request whose login fails returns with the flag false.
FailedLoginLeavesFlagFalse ==
    \A r \in 1 .. NumRequests :
        (\E answer \in LoginAnswers : LoginPost(r, answer) /\ ~LoginSucceeds(answer))
            => /\ requests'[r].pc = "done"
               /\ requests'[r].result = "LoginFailed"
               /\ ~logged_in'

\* C39: a request that gets a 403 logs in again exactly once and retries
\* exactly once; a request logs in first only when the flag is false; a
\* request whose login attempt fails returns an error, and the flag is false
\* when it does.
C39_ReloginOnceAndFailedLoginFlagFalse ==
    /\ []OneReloginOneRetry
    /\ [][LoginFirstOnlyWhenFalse /\ FailedLoginLeavesFlagFalse]_vars

(***************************************************************************)
(* Properties of chunk_message                                             *)
(***************************************************************************)
ChunkReturned == chunkOutput # None /\ chunkOutput[1].end = "returned"

ChunksOf(output) == {output.chunks[i] : i \in 1 .. Len(output.chunks)}

\* The call returned.
ChunkTerminates == chunkOutput # None => chunkOutput[1].end = "returned"

ChunksWithinMaxLen ==
    ChunkReturned =>
        \A chunk \in ChunksOf(chunkOutput[1]) : Len(chunk) <= chunkInput.max_len

ChunksNotEmpty ==
    ChunkReturned => \A chunk \in ChunksOf(chunkOutput[1]) : chunk # <<>>

ShortTextIsOneChunk ==
    (ChunkReturned /\ Len(chunkInput.text) <= chunkInput.max_len)
        => chunkOutput[1].chunks = <<chunkInput.text>>

\* The newlines among the first max_len bytes of the text.
NewlinesInside == {i \in 1 .. chunkInput.max_len : chunkInput.text[i] = "\n"}

\* The first chunk of a long text ends before the last newline inside the
\* first max_len bytes, or after max_len bytes when there is none, and the
\* second chunk does not begin with that newline.
LongTextSplitAtNewline ==
    (ChunkReturned /\ Len(chunkInput.text) > chunkInput.max_len) =>
        LET chunks == chunkOutput[1].chunks
            first == IF NewlinesInside = {}
                     THEN chunkInput.max_len
                     ELSE (CHOOSE i \in NewlinesInside : \A j \in NewlinesInside : j <= i) - 1
            next == IF NewlinesInside = {} THEN first + 1 ELSE first + 2
        IN  /\ Len(chunks) >= 1
            /\ chunks[1] = SubSeq(chunkInput.text, 1, first)
            /\ Len(chunks) >= 2 =>
                   \E n \in {next, next + 1} :
                       chunks[2] = SubSeq(chunkInput.text, n, n + Len(chunks[2]) - 1)

\* C40: for every text and every max_len of at least 1 the call returns,
\* every chunk is at most max_len long and none is empty; a text of at most
\* max_len comes back as one chunk, and a longer one is split at the last
\* newline inside its first max_len bytes, that newline dropped, or at max_len
\* when there is none.
C40_ChunksBoundedAndNotEmpty ==
    /\ ChunkTerminates
    /\ ChunksWithinMaxLen
    /\ ChunksNotEmpty
    /\ ShortTextIsOneChunk
    /\ LongTextSplitAtNewline

=============================================================================
